---- MODULE Spec2Model ----
(***************************************************************************)
(* KodaiBot: a single-user LINE task tracker.  The model follows           *)
(* src/dist/index.js (the build that is deployed): the reminder dispatch   *)
(* loop GET /remind with its cadence table, the task repository            *)
(* (getTasks / addTask / removeTaskByIndex / updateTask) and the           *)
(* conversation state machine textEventHandler.                            *)
(*                                                                         *)
(* Time.  An instant is a number of ticks since 1970-01-01T00:00Z, with    *)
(* TicksPerMinute ticks in a minute, so that Date.now() can fall strictly  *)
(* between two whole minutes.  Calendar fields are computed with the       *)
(* proleptic Gregorian calendar, as the JavaScript Date object does.       *)
(*                                                                         *)
(* Text.  A chat text or a stored deadline string is a sequence of tokens  *)
(* [k, n, w]: k = "num" is a run of w decimal digits of value n, any other *)
(* k is a literal piece of text (romanised: "gatsu" is the month sign,     *)
(* "nichi" the day sign, "ji" the hour sign, "fun" the minute sign,        *)
(* "sp" one blank).                                                        *)
(***************************************************************************)
EXTENDS Integers, Sequences, FiniteSets, TLC

VARIABLES
    now,        \* the wall clock: what Date.now() / new Date() returns
    tz,         \* the server's local time zone, minutes east of UTC
    redis,      \* whether a Redis store is configured (else the in-memory Maps)
    ALLOWED_LINE_USER_ID, \* the configured identity; "" when none is configured
    CHANNEL_ACCESS_TOKEN, \* the configured channel token; "" when none is configured
    CRON_SECRET, \* the shared secret of GET /remind; "" when none is configured
    tasks,      \* the stored task list of the allow-listed user
    state,      \* the stored conversation state of the allow-listed user
    runs,       \* the local variables of each invocation of GET /remind
    handlers,   \* the local variables of each event handler of the webhook batch
    batch,      \* the webhook request in flight: hasError and its response
    pushes,     \* history: the reminder pushes attempted (ok or failed), in order
    replies,    \* history: the last reply sent to the user
    idClock,    \* rank of the last Date.now() reading used for a task id
    nStarted,   \* number of GET /remind invocations so far
    nAdvanced,  \* number of clock advances so far
    nTurns,     \* number of chat messages handled so far
    nCancelled  \* history: number of cancel confirmations sent so far

vars == <<now, tz, redis, ALLOWED_LINE_USER_ID, CHANNEL_ACCESS_TOKEN, CRON_SECRET, handlers, batch, tasks, state, runs,
          pushes, replies, idClock, nStarted, nAdvanced, nTurns,
          nCancelled>>

(***************************************************************************)
(* Bounds of the exploration.                                              *)
(***************************************************************************)
TicksPerMinute == 2
MaxRuns == 3
MaxAdvance == 2
MaxTasks == 2
MaxIds == 3
MaxTurns == 5
MaxFlowTurns == 7
MaxRepoTasks == 3
MaxRepoIds == 4
MaxBatchTurns == 3

(***************************************************************************)
(* Program constants.                                                      *)
(***************************************************************************)
windowMinutes == 12
JSTOffsetMinutes == 540
NaN == -999
\* null, what JSON.stringify writes for NaN
Null == -998

MinutesPerDay == 24 * 60
TicksPerDay == MinutesPerDay * TicksPerMinute

(***************************************************************************)
(* The JavaScript Date object: days since the epoch <-> civil date.        *)
(***************************************************************************)
\* Every value that is read more than once is handed on as a parameter.
DaysFromYoe(era, yoe, doy) ==
    era * 146097 + (yoe * 365 + yoe \div 4 - yoe \div 100 + doy) - 719468

DaysFromShifted(y, mp, day) ==
    DaysFromYoe(y \div 400, y - (y \div 400) * 400, (153 * mp + 2) \div 5 + day - 1)

DaysFromCivil(year, month, day) ==
    DaysFromShifted(IF month <= 2 THEN year - 1 ELSE year,
                    IF month > 2 THEN month - 3 ELSE month + 9, day)

CivilOfMonth(y0, mp, d) ==
    [y |-> IF mp < 10 THEN y0 ELSE y0 + 1,
     m |-> IF mp < 10 THEN mp + 3 ELSE mp - 9,
     d |-> d]

CivilOfDoy(y0, doy, mp) == CivilOfMonth(y0, mp, doy - (153 * mp + 2) \div 5 + 1)

CivilOfYoe(era, doe, yoe) ==
    CivilOfDoy(yoe + era * 400,
               doe - (365 * yoe + yoe \div 4 - yoe \div 100),
               (5 * (doe - (365 * yoe + yoe \div 4 - yoe \div 100)) + 2) \div 153)

CivilOfDoe(era, doe) ==
    CivilOfYoe(era, doe,
               (doe - doe \div 1460 + doe \div 36524 - doe \div 146096) \div 365)

CivilOfShifted(z) == CivilOfDoe(z \div 146097, z - (z \div 146097) * 146097)

CivilFromDays(days) == CivilOfShifted(days + 719468)

\* Date.UTC(year, month0, day, hour, minute): month0 is 0-based; a day, hour or
\* minute beyond its range carries over into the next month, day or hour.
DateUTC(year, month0, day, hour, minute) ==
    ((DaysFromCivil(year, month0 + 1, 1) + day - 1) * MinutesPerDay
        + hour * 60 + minute) * TicksPerMinute

\* new Date(year, month0, day, hour, minute): the same fields read in the
\* server's local time zone zone (minutes east of UTC).
DateLocal(zone, year, month0, day, hour, minute) ==
    DateUTC(year, month0, day, hour, minute) - zone * TicksPerMinute

\* The civil fields of instant t as seen zone minutes east of UTC.
FieldsOf(c, mins) ==
    [y |-> c.y, m |-> c.m, d |-> c.d,
     hour |-> (mins % MinutesPerDay) \div 60, minute |-> mins % 60]

FieldsOfMinutes(mins) == FieldsOf(CivilFromDays(mins \div MinutesPerDay), mins)

FieldsAt(t, zone) == FieldsOfMinutes(t \div TicksPerMinute + zone)

\* now.getFullYear() in the server's local time zone.
getFullYear(t, zone) == FieldsAt(t, zone).y

(***************************************************************************)
(* Text as token sequences.                                                *)
(***************************************************************************)
Num(n) == [k |-> "num", n |-> n, w |-> IF n < 10 THEN 1 ELSE IF n < 100 THEN 2 ELSE 3]
NumW(n, w) == [k |-> "num", n |-> n, w |-> w]
Lit(s) == [k |-> s, n |-> 0, w |-> 0]

IsNum(t) == t.k = "num"
\* \d{1,2}: a run of one or two digits.
IsNum12(t) == t.k = "num" /\ t.w \in {1, 2}

Drop(s, n) == SubSeq(s, n + 1, Len(s))
StartsWith(s, ks) ==
    /\ Len(s) >= Len(ks)
    /\ \A i \in 1..Len(ks) : s[i].k = ks[i]

RECURSIVE SkipSp(_)
SkipSp(s) == IF s # <<>> /\ s[1].k = "sp" THEN SkipSp(Tail(s)) ELSE s

RECURSIVE DropTrailingSp(_)
DropTrailingSp(s) ==
    IF s # <<>> /\ s[Len(s)].k = "sp" THEN DropTrailingSp(SubSeq(s, 1, Len(s) - 1)) ELSE s

\* String.prototype.trim
trim(s) == DropTrailingSp(SkipSp(s))

\* parseInt(text, 10): leading blanks, an optional sign, then the leading
\* digits; whatever follows the digits is ignored; NaN without digits.
parseIntOf(r) ==
    IF r # <<>> /\ IsNum(r[1]) THEN r[1].n
    ELSE IF Len(r) >= 2 /\ r[1].k = "minus" /\ IsNum(r[2]) THEN 0 - r[2].n
    ELSE NaN

parseInt(s) == parseIntOf(SkipSp(s))

\* JavaScript comparisons: every comparison with NaN is false.
JsLt(a, b) == a # NaN /\ b # NaN /\ a < b
JsGt(a, b) == a # NaN /\ b # NaN /\ a > b

NoMatch == [ok |-> FALSE, month |-> 0, day |-> 0, hasHour |-> FALSE, hour |-> 0,
            hasMinute |-> FALSE, minute |-> 0]

\* /^(\d{1,2})月(\d{1,2})日(?:\s*(\d{1,2})時)?(?:\s*(\d{1,2})分)?$/
HasUnit(r, unit) == Len(r) >= 2 /\ IsNum12(r[1]) /\ r[2].k = unit

\* (?:\s*(\d{1,2})分)?$ on the rest r, mi being r without its leading blanks.
AbsMinute(s, hasH, hour, r, mi) ==
    IF (IF HasUnit(mi, "fun") THEN Drop(mi, 2) ELSE r) # <<>> THEN NoMatch
    ELSE [ok |-> TRUE, month |-> s[1].n, day |-> s[3].n,
          hasHour |-> hasH, hour |-> hour,
          hasMinute |-> HasUnit(mi, "fun"),
          minute |-> IF HasUnit(mi, "fun") THEN mi[1].n ELSE 0]

AbsRest(s, hasH, hour, r) == AbsMinute(s, hasH, hour, r, SkipSp(r))

\* (?:\s*(\d{1,2})時)? on the rest r, h being r without its leading blanks.
AbsHour(s, r, h) ==
    IF HasUnit(h, "ji") THEN AbsRest(s, TRUE, h[1].n, Drop(h, 2))
    ELSE AbsRest(s, FALSE, 0, r)

MatchAbsolute(s) ==
    IF ~(Len(s) >= 4 /\ IsNum12(s[1]) /\ s[2].k = "gatsu" /\ IsNum12(s[3]) /\ s[4].k = "nichi")
    THEN NoMatch
    ELSE AbsHour(s, Drop(s, 4), SkipSp(Drop(s, 4)))

NoRel == [ok |-> FALSE, days |-> 0, hasHour |-> FALSE, hour |-> 0,
          hasMinute |-> FALSE, minute |-> 0]

\* /^(今日|明日|明後日|(\d+)日後)(?:の?(\d{1,2})時(?:(\d{1,2})分)?)?$/
\* (?:(\d{1,2})分)?$ on the rest r behind the hour.
RelMinute(days, hour, r) ==
    IF (IF HasUnit(r, "fun") THEN Drop(r, 2) ELSE r) # <<>> THEN NoRel
    ELSE [ok |-> TRUE, days |-> days, hasHour |-> TRUE, hour |-> hour,
          hasMinute |-> HasUnit(r, "fun"),
          minute |-> IF HasUnit(r, "fun") THEN r[1].n ELSE 0]

\* (?:の?(\d{1,2})時 ...)?$ on the rest r, h being r without a leading の.
RelHour(days, r, h) ==
    IF HasUnit(h, "ji") THEN RelMinute(days, h[1].n, Drop(h, 2))
    ELSE IF r # <<>> THEN NoRel
    ELSE [NoRel EXCEPT !.ok = TRUE, !.days = days]

RelRest(days, r) == RelHour(days, r, IF r # <<>> /\ r[1].k = "no" THEN Tail(r) ELSE r)

MatchRelative(s) ==
    IF StartsWith(s, <<"kon", "nichi">>) THEN RelRest(0, Drop(s, 2))
    ELSE IF StartsWith(s, <<"myou", "nichi">>) THEN RelRest(1, Drop(s, 2))
    ELSE IF StartsWith(s, <<"myou", "go", "nichi">>) THEN RelRest(2, Drop(s, 3))
    ELSE IF StartsWith(s, <<"num", "nichi", "go">>) THEN RelRest(s[1].n, Drop(s, 3))
    ELSE NoRel

\* The normalised deadline string: `${month}月${day}日` [` ${hour}時` [`${minute}分`]].
formatTime(hasHour, hour, hasMinute, minute) ==
    IF hasHour
    THEN <<Lit("sp"), Num(hour), Lit("ji")>>
            \o (IF hasMinute THEN <<Num(minute), Lit("fun")>> ELSE <<>>)
    ELSE <<>>

formatDeadline(month, day, hasHour, hour, hasMinute, minute) ==
    <<Num(month), Lit("gatsu"), Num(day), Lit("nichi")>>
        \o formatTime(hasHour, hour, hasMinute, minute)

\* The same template over an Invalid Date, whose getUTCMonth() and
\* getUTCDate() are NaN.
formatInvalidDate(hasHour, hour, hasMinute, minute) ==
    <<Lit("NaN"), Lit("gatsu"), Lit("NaN"), Lit("nichi")>>
        \o formatTime(hasHour, hour, hasMinute, minute)

\* getJSTToday(): midnight of the UTC+9 date of instant t, held as a UTC date.
JSTTodayOf(f) == DateUTC(f.y, f.m - 1, f.d, 0, 0)

getJSTToday(t) == JSTTodayOf(FieldsAt(t, JSTOffsetMinutes))

Rejected == <<Lit("null")>>

\* The relative branch: base is getJSTToday() read as a UTC date, target the
\* UTC date daysToAdd days later.
RelativeResult(rel, target) ==
    formatDeadline(target.m, target.d, rel.hasHour, rel.hour, rel.hasMinute, rel.minute)

\* Date.UTC gives NaN for a time value beyond 8.64e15 ms, which is
\* 100,000,000 days from the epoch; new Date(NaN) is an Invalid Date.
MaxDateDays == 100000000

IsInvalidDate(dayNumber, hour, minute) ==
    dayNumber > MaxDateDays \/ (dayNumber = MaxDateDays /\ hour * 60 + minute > 0)

RelativeTarget(rel, base) ==
    IF IsInvalidDate(DaysFromCivil(base.y, base.m, base.d) + rel.days, rel.hour, rel.minute)
    THEN formatInvalidDate(rel.hasHour, rel.hour, rel.hasMinute, rel.minute)
    ELSE RelativeResult(rel, FieldsAt(DateUTC(base.y, base.m - 1, base.d + rel.days,
                                              rel.hour, rel.minute), 0))

ParseMatched(rel, m, t) ==
    IF rel.ok
    THEN IF rel.hasHour /\ (rel.hour < 0 \/ rel.hour > 23) THEN Rejected
         ELSE IF rel.hasMinute /\ (rel.minute < 0 \/ rel.minute > 59) THEN Rejected
         ELSE RelativeTarget(rel, FieldsAt(getJSTToday(t), 0))
    ELSE IF ~m.ok THEN Rejected
    ELSE IF m.month < 1 \/ m.month > 12 \/ m.day < 1 \/ m.day > 31 THEN Rejected
    ELSE IF m.hasHour /\ (m.hour < 0 \/ m.hour > 23) THEN Rejected
    ELSE IF m.hasMinute /\ (m.minute < 0 \/ m.minute > 59) THEN Rejected
    ELSE formatDeadline(m.month, m.day, m.hasHour, m.hour, m.hasMinute, m.minute)

ParseTrimmed(trimmed, t) == ParseMatched(MatchRelative(trimmed), MatchAbsolute(trimmed), t)

\* parseDeadlineInput(input) called at instant t: the normalised deadline
\* string, or Rejected (null).
parseDeadlineInput(input, t) == ParseTrimmed(trim(input), t)

NoDate == -1

\* A conversion that keeps this year's date also when it has passed.
RollYearNever(m, t, zone, year, d) == d

\* `if (d.getTime() < now.getTime()) year += 1`, d being this year's date.
RollYear(m, t, zone, year, d) ==
    IF d < t THEN DateLocal(zone, year + 1, m.month - 1, m.day, m.hour, m.minute) ELSE d

DateInYear(m, t, zone, year) ==
    RollYear(m, t, zone, year, DateLocal(zone, year, m.month - 1, m.day, m.hour, m.minute))

DateOfMatch(m, t, zone) ==
    IF ~m.ok THEN NoDate
    ELSE IF m.month - 1 < 0 \/ m.month - 1 > 11 \/ m.day < 1 \/ m.day > 31 THEN NoDate
    ELSE DateInYear(m, t, zone, getFullYear(t, zone))

\* parseDeadlineToDate(deadline) called at instant t on a server zone minutes
\* east of UTC: the deadline instant, or NoDate (null).
parseDeadlineToDate(deadline, t, zone) == DateOfMatch(MatchAbsolute(trim(deadline)), t, zone)

\* getJSTNow(now): the UTC+9 date (year, month, day of `YYYY-MM-DD`) and hour.
JSTNowOf(f) == [dateStr |-> <<f.y, f.m, f.d>>, hour |-> f.hour]

getJSTNow(t) == JSTNowOf(FieldsAt(t, JSTOffsetMinutes))

(***************************************************************************)
(* The task repository.                                                    *)
(***************************************************************************)
\* The comparator (a, b) => a.priority - b.priority is positive: b sorts
\* before a.  A NaN difference counts as 0 (Array.prototype.sort); null
\* counts as 0 in the subtraction.
ToNumber(p) == IF p = Null THEN 0 ELSE p
ComparatorPositive(a, b) ==
    a.priority # NaN /\ b.priority # NaN /\ ToNumber(a.priority) - ToNumber(b.priority) > 0

\* Insert x behind every element that does not sort after it.
RECURSIVE InsertSorted(_, _)
InsertSorted(sorted, x) ==
    IF sorted = <<>> THEN <<x>>
    ELSE IF ComparatorPositive(sorted[Len(sorted)], x)
         THEN Append(InsertSorted(SubSeq(sorted, 1, Len(sorted) - 1), x), sorted[Len(sorted)])
         ELSE Append(sorted, x)

\* [...list].sort((a, b) => a.priority - b.priority): a stable sort.
RECURSIVE sortByPriority(_)
sortByPriority(list) ==
    IF list = <<>> THEN <<>>
    ELSE InsertSorted(sortByPriority(SubSeq(list, 1, Len(list) - 1)), list[Len(list)])

\* list.findIndex((t) => t.id === taskId), 1-based; 0 when there is none.
findIndex(list, taskId) ==
    IF \E j \in 1..Len(list) : list[j].id = taskId
    THEN CHOOSE j \in 1..Len(list) :
            /\ list[j].id = taskId
            /\ \A h \in 1..(j - 1) : list[h].id # taskId
    ELSE 0

\* addTask: list.push(task), then the sorted copy is stored.
addTask(list, task) == sortByPriority(Append(list, task))

\* A removal that takes the index the user typed for the array index.
removeTaskByIndexZeroBased(list, oneBasedIndex) ==
    LET i == oneBasedIndex IN
    IF i < 0 \/ i >= Len(list) THEN list
    ELSE SubSeq(list, 1, i) \o SubSeq(list, i + 2, Len(list))

\* removeTaskByIndex: list.splice(i, 1), stored without sorting; the list
\* itself when the index is out of range.
removeTaskByIndex(list, oneBasedIndex) ==
    LET i == oneBasedIndex - 1 IN
    IF i < 0 \/ i >= Len(list) THEN list
    ELSE SubSeq(list, 1, i) \o SubSeq(list, i + 2, Len(list))

\* The updater of the dispatch loop: remindersSent gets slotKey appended.
appendSent(t, slotKey) == [t EXCEPT !.remindersSent = Append(@, slotKey)]

\* updateTask on the list it has read: the list to store (sorted again).
updateTaskList(list, taskId, slotKey) ==
    LET i == findIndex(list, taskId) IN
    IF i = 0 THEN list
    ELSE sortByPriority([list EXCEPT ![i] = appendSent(list[i], slotKey)])

(***************************************************************************)
(* The reminder scheduler: the cadence table of GET /remind.               *)
(***************************************************************************)
NoDateStr == <<0, 0, 0>>
NoSlot == [k |-> "none", d |-> NoDateStr, n |-> 0]
\* `${jst.dateStr}-${hour}`
DateSlot(jst, hour) == [k |-> "date", d |-> jst.dateStr, n |-> hour]
\* `${daysLeft}d-12` and `${daysLeft}d-14`
DaysSlot(daysLeft, hour) ==
    [k |-> IF hour = 12 THEN "d-12" ELSE "d-14", d |-> NoDateStr, n |-> daysLeft]
Slot1h == [k |-> "1h", d |-> NoDateStr, n |-> 0]
Slot30m == [k |-> "30m", d |-> NoDateStr, n |-> 0]

\* A scheduler that does not read the sent-slot record.
sentOfIgnored(task) == {}

\* new Set(task.remindersSent ?? [])
sentOf(task) == {task.remindersSent[j] : j \in 1..Len(task.remindersSent)}

\* remainingDays >= 7
FarMode(rem) == rem >= 7 * TicksPerDay
\* Math.floor(remainingDays)
daysLeftOf(rem) == rem \div TicksPerDay

\* Priority 1 with the far-mode key taken at whatever hour the run happens.
slotKeyPriority1AnyHour(rem, jst) ==
    IF FarMode(rem) THEN DateSlot(jst, jst.hour)
    ELSE IF jst.hour \in {8, 12, 18} THEN DateSlot(jst, jst.hour)
    ELSE NoSlot

\* The slotKey of the priority 1 branch; NoSlot stands for null.
slotKeyPriority1(rem, jst) ==
    IF FarMode(rem)
    THEN (IF jst.hour = 9 THEN DateSlot(jst, 9) ELSE NoSlot)
    ELSE (IF jst.hour = 8 THEN DateSlot(jst, 8)
          ELSE IF jst.hour = 12 THEN DateSlot(jst, 12)
          ELSE IF jst.hour = 18 THEN DateSlot(jst, 18)
          ELSE NoSlot)

\* Priority 2 in far mode without the multiple-of-3 condition.
slotKeyPriority2EveryDay(rem, jst) ==
    IF FarMode(rem)
    THEN (IF jst.hour = 12 THEN DaysSlot(daysLeftOf(rem), 12) ELSE NoSlot)
    ELSE (IF jst.hour \in {10, 22} THEN DateSlot(jst, jst.hour) ELSE NoSlot)

\* The slotKey of the priority 2 branch.
slotKeyPriority2(rem, jst) ==
    IF FarMode(rem)
    THEN (IF jst.hour = 12 /\ daysLeftOf(rem) >= 3 /\ daysLeftOf(rem) % 3 = 0
          THEN DaysSlot(daysLeftOf(rem), 12) ELSE NoSlot)
    ELSE (IF jst.hour = 10 THEN DateSlot(jst, 10)
          ELSE IF jst.hour = 22 THEN DateSlot(jst, 22)
          ELSE NoSlot)

\* Priority 3 with the near-mode notification one hour late.
slotKeyPriority3At18(rem, jst) ==
    IF FarMode(rem)
    THEN (IF jst.hour = 14 /\ daysLeftOf(rem) >= 5 /\ daysLeftOf(rem) % 5 = 0
          THEN DaysSlot(daysLeftOf(rem), 14) ELSE NoSlot)
    ELSE (IF jst.hour = 18 THEN DateSlot(jst, 18) ELSE NoSlot)

\* The slotKey of the priority 3 branch.
slotKeyPriority3(rem, jst) ==
    IF FarMode(rem)
    THEN (IF jst.hour = 14 /\ daysLeftOf(rem) >= 5 /\ daysLeftOf(rem) % 5 = 0
          THEN DaysSlot(daysLeftOf(rem), 14) ELSE NoSlot)
    ELSE (IF jst.hour = 17 THEN DateSlot(jst, 17) ELSE NoSlot)

\* The slotKey of the branch the task's priority selects.
slotKeyOf(priority, rem, jst) ==
    IF priority = 1 THEN slotKeyPriority1(rem, jst)
    ELSE IF priority = 2 THEN slotKeyPriority2(rem, jst)
    ELSE slotKeyPriority3(rem, jst)

\* getReminderSlots(priority)
getReminderSlots(priority) == <<[label |-> Slot1h, minutesBefore |-> 60]>>

\* The window with its upper end left out.
InWindowOpen(rem, minutesBefore) ==
    /\ rem < minutesBefore * TicksPerMinute
    /\ rem > (minutesBefore - windowMinutes) * TicksPerMinute

\* remainingMinutes <= minutesBefore && remainingMinutes > minutesBefore - windowMinutes
InWindow(rem, minutesBefore) ==
    /\ rem <= minutesBefore * TicksPerMinute
    /\ rem > (minutesBefore - windowMinutes) * TicksPerMinute

\* The for loop over getReminderSlots: the first slot that is not sent yet
\* and whose window holds the remaining time (the loop breaks there).
dueReminderSlot(priority, sent, rem) ==
    LET slots == getReminderSlots(priority)
        due(j) == slots[j].label \notin sent /\ InWindow(rem, slots[j].minutesBefore)
    IN  IF \E j \in 1..Len(slots) : due(j)
        THEN slots[CHOOSE j \in 1..Len(slots) : due(j) /\ \A h \in 1..(j - 1) : ~due(h)].label
        ELSE NoSlot

\* The block after the slot loop: the 30-minute notification.
due30m(sent, rem) == InWindow(rem, 30) /\ Slot30m \notin sent

(***************************************************************************)
(* GET /remind: the dispatch loop.  One invocation r holds the task list   *)
(* it read (tasks), its Date.now() (now), the index i of the task of the   *)
(* for loop, and, while it awaits pushMessage or updateTask, the slot it   *)
(* is sending (slot), the place of that send in the loop body (stage:      *)
(* "cadence" for the priority 1-3 branches, "slot" for the getReminderSlots*)
(* loop, "final" for the 30-minute block), and the list updateTask read;   *)
(* n numbers the invocations and status is the HTTP status it answered.    *)
(***************************************************************************)
Runs == {1, 2}

IdleRun ==
    [pc |-> "idle", n |-> 0, tasks |-> <<>>, now |-> 0, i |-> 0, slot |-> NoSlot,
     stage |-> "none", rem |-> 0, sent |-> {}, list |-> <<>>, status |-> 0]

Active(run) == run.pc \in {"push", "read", "write"}

AwaitPush(run, i, slot, stage, rem, sent) ==
    [run EXCEPT !.pc = "push", !.i = i, !.slot = slot, !.stage = stage,
                !.rem = rem, !.sent = sent, !.list = <<>>]

\* res.status(200).send("OK") after the loop.
Respond(run) ==
    [run EXCEPT !.pc = "done", !.i = Len(run.tasks) + 1, !.slot = NoSlot,
                !.stage = "none", !.rem = 0, !.sent = {}, !.list = <<>>, !.status = 200]

\* The loop body from task i on, up to the next await or the response.  No
\* await lies between two tasks without a due slot, so they are passed in
\* one step; parseDeadlineToDate reads the clock (new Date()) on its own.
RECURSIVE Scan(_, _)
Final30(run, i, rem, sent) ==
    IF due30m(sent, rem) THEN AwaitPush(run, i, Slot30m, "final", rem, sent)
    ELSE Scan(run, i + 1)

\* The priority 1, 2 and 3 branches, each ending in `continue`.
Cadence(run, i, rem, sent, slotKey) ==
    IF slotKey # NoSlot /\ slotKey \notin sent
    THEN AwaitPush(run, i, slotKey, "cadence", rem, sent)
    ELSE Scan(run, i + 1)

\* The loop over getReminderSlots, then the 30-minute block.
SlotLoop(run, i, rem, sent, slot) ==
    IF slot # NoSlot THEN AwaitPush(run, i, slot, "slot", rem, sent)
    ELSE Final30(run, i, rem, sent)

Branches(run, i, task, rem, sent) ==
    IF rem < 0 THEN Scan(run, i + 1)
    ELSE IF task.priority \in {1, 2, 3}
         THEN Cadence(run, i, rem, sent, slotKeyOf(task.priority, rem, getJSTNow(run.now)))
         ELSE SlotLoop(run, i, rem, sent, dueReminderSlot(task.priority, sent, rem))

LoopBody(run, i, task, deadlineDate) ==
    IF deadlineDate = NoDate THEN Scan(run, i + 1)
    ELSE Branches(run, i, task, deadlineDate - run.now, sentOf(task))

Scan(run, i) ==
    IF i > Len(run.tasks) THEN Respond(run)
    ELSE LoopBody(run, i, run.tasks[i], parseDeadlineToDate(run.tasks[i].deadline, now, tz))

\* After the try/catch around pushMessage and updateTask: `continue` in the
\* priority 1-3 branches, `break` and the 30-minute block after the slot
\* loop, the next task after the 30-minute block.
AfterAttempt(run) ==
    IF run.stage = "slot" THEN Final30(run, run.i, run.rem, run.sent)
    ELSE Scan(run, run.i + 1)

PushRecordOf(r, ok, run, task) ==
    [run |-> r, n |-> run.n, ok |-> ok, id |-> task.id, priority |-> task.priority,
     label |-> run.slot, at |-> run.now, rem |-> run.rem]

PushRecord(r, ok) == PushRecordOf(r, ok, runs[r], runs[r].tasks[runs[r].i])

\* A request that starts the loop whatever is configured.
RemindStartUnguarded(r) ==
    /\ runs[r].pc \in {"idle", "done", "crashed"}
    /\ \A q \in Runs : q < r => runs[q].pc \notin {"idle", "done", "crashed"}
    /\ nStarted < MaxRuns
    /\ nStarted' = nStarted + 1
    /\ runs' = [runs EXCEPT ![r] =
                    Scan([IdleRun EXCEPT !.n = nStarted + 1, !.tasks = tasks, !.now = now], 1)]
    /\ UNCHANGED <<now, tz, redis, ALLOWED_LINE_USER_ID, CHANNEL_ACCESS_TOKEN, CRON_SECRET, handlers, batch, tasks, state, pushes, replies, idClock, nAdvanced, nTurns, nCancelled>>

\* Whether GET /remind has work to do: the identity, the token and Redis.
CanRemind == ALLOWED_LINE_USER_ID # "" /\ CHANNEL_ACCESS_TOKEN # "" /\ redis

\* A request that carries the secret (or when none is configured): the
\* handler up to its first await that can be observed: the guards, the
\* read of the task list, Date.now(), and the loop up to the first push.
RemindStart(r) ==
    /\ runs[r].pc \in {"idle", "done", "crashed"}
    /\ \A q \in Runs : q < r => runs[q].pc \notin {"idle", "done", "crashed"}
    /\ nStarted < MaxRuns
    /\ nStarted' = nStarted + 1
    /\ runs' = [runs EXCEPT ![r] =
                    IF CanRemind
                    THEN Scan([IdleRun EXCEPT !.n = nStarted + 1, !.tasks = tasks, !.now = now], 1)
                    ELSE Respond([IdleRun EXCEPT !.n = nStarted + 1])]
    /\ UNCHANGED <<now, tz, redis, ALLOWED_LINE_USER_ID, CHANNEL_ACCESS_TOKEN, CRON_SECRET, handlers, batch, tasks, state, pushes, replies, idClock, nAdvanced, nTurns, nCancelled>>

\* A request without the configured secret: 401, and nothing else.
RemindUnauthorized(r) ==
    /\ CRON_SECRET # ""
    /\ runs[r].pc \in {"idle", "done", "crashed"}
    /\ \A q \in Runs : q < r => runs[q].pc \notin {"idle", "done", "crashed"}
    /\ nStarted < MaxRuns
    /\ nStarted' = nStarted + 1
    /\ runs' = [runs EXCEPT ![r] = [Respond([IdleRun EXCEPT !.n = nStarted + 1]) EXCEPT !.status = 401]]
    /\ UNCHANGED <<now, tz, redis, ALLOWED_LINE_USER_ID, CHANNEL_ACCESS_TOKEN, CRON_SECRET, handlers, batch, tasks, state, pushes, replies, idClock, nAdvanced, nTurns, nCancelled>>

\* await client.pushMessage(...) resolves.
PushOk(r) ==
    /\ runs[r].pc = "push"
    /\ pushes' = Append(pushes, PushRecord(r, TRUE))
    /\ runs' = [runs EXCEPT ![r].pc = "read"]
    /\ UNCHANGED <<now, tz, redis, ALLOWED_LINE_USER_ID, CHANNEL_ACCESS_TOKEN, CRON_SECRET, handlers, batch, tasks, state, replies, idClock, nStarted, nAdvanced, nTurns, nCancelled>>

\* A rejected push that is not caught in the loop: the handler ends with 500.
PushFailAborts(r) ==
    /\ runs[r].pc = "push"
    /\ pushes' = Append(pushes, PushRecord(r, FALSE))
    /\ runs' = [runs EXCEPT ![r] = [Respond(runs[r]) EXCEPT !.status = 500]]
    /\ UNCHANGED <<now, tz, redis, ALLOWED_LINE_USER_ID, CHANNEL_ACCESS_TOKEN, CRON_SECRET, handlers, batch, tasks, state, replies, idClock, nStarted, nAdvanced, nTurns, nCancelled>>

\* A rejected push after which the label is recorded all the same.
PushFailRecords(r) ==
    /\ runs[r].pc = "push"
    /\ pushes' = Append(pushes, PushRecord(r, FALSE))
    /\ runs' = [runs EXCEPT ![r].pc = "read"]
    /\ UNCHANGED <<now, tz, redis, ALLOWED_LINE_USER_ID, CHANNEL_ACCESS_TOKEN, CRON_SECRET, handlers, batch, tasks, state, replies, idClock, nStarted, nAdvanced, nTurns, nCancelled>>

\* await client.pushMessage(...) rejects: the catch logs, nothing is stored.
PushFail(r) ==
    /\ runs[r].pc = "push"
    /\ pushes' = Append(pushes, PushRecord(r, FALSE))
    /\ runs' = [runs EXCEPT ![r] = AfterAttempt(runs[r])]
    /\ UNCHANGED <<now, tz, redis, ALLOWED_LINE_USER_ID, CHANNEL_ACCESS_TOKEN, CRON_SECRET, handlers, batch, tasks, state, replies, idClock, nStarted, nAdvanced, nTurns, nCancelled>>

\* updateTask: `await getTasks(userId)`; without the task it returns false.
UpdateRead(r) ==
    /\ runs[r].pc = "read"
    /\ runs' = [runs EXCEPT ![r] =
                    IF findIndex(tasks, runs[r].tasks[runs[r].i].id) = 0
                    THEN AfterAttempt(runs[r])
                    ELSE [runs[r] EXCEPT !.pc = "write", !.list = tasks]]
    /\ UNCHANGED <<now, tz, redis, ALLOWED_LINE_USER_ID, CHANNEL_ACCESS_TOKEN, CRON_SECRET, handlers, batch, tasks, state, pushes, replies, idClock, nStarted, nAdvanced, nTurns, nCancelled>>

\* updateTask: the updated, sorted list is stored (redis.set).
UpdateWrite(r) ==
    /\ runs[r].pc = "write"
    /\ tasks' = updateTaskList(runs[r].list, runs[r].tasks[runs[r].i].id, runs[r].slot)
    /\ runs' = [runs EXCEPT ![r] = AfterAttempt(runs[r])]
    /\ UNCHANGED <<now, tz, redis, ALLOWED_LINE_USER_ID, CHANNEL_ACCESS_TOKEN, CRON_SECRET, handlers, batch, state, pushes, replies, idClock, nStarted, nAdvanced, nTurns, nCancelled>>

\* updateTask rejects (the store fails): the same catch, nothing is stored.
UpdateFail(r) ==
    /\ runs[r].pc \in {"read", "write"}
    /\ runs' = [runs EXCEPT ![r] = AfterAttempt(runs[r])]
    /\ UNCHANGED <<now, tz, redis, ALLOWED_LINE_USER_ID, CHANNEL_ACCESS_TOKEN, CRON_SECRET, handlers, batch, tasks, state, pushes, replies, idClock, nStarted, nAdvanced, nTurns, nCancelled>>

\* The process dies while the invocation awaits (the platform ends the
\* function, the host restarts): nothing more of it happens.
Crash(r) ==
    /\ Active(runs[r])
    /\ runs' = [runs EXCEPT ![r].pc = "crashed"]
    /\ UNCHANGED <<now, tz, redis, ALLOWED_LINE_USER_ID, CHANNEL_ACCESS_TOKEN, CRON_SECRET, handlers, batch, tasks, state, pushes, replies, idClock, nStarted, nAdvanced, nTurns, nCancelled>>

(***************************************************************************)
(* The clock.                                                              *)
(***************************************************************************)
\* Between two invocations the clock moves on by a tick, by the tolerance
\* window or by a day; an invocation in flight ends within its request
\* deadline, so the clock moves by ticks while one is awaiting.
Deltas == {1, windowMinutes * TicksPerMinute, TicksPerDay}

Advance ==
    /\ nAdvanced < MaxAdvance
    /\ nAdvanced' = nAdvanced + 1
    /\ \E delta \in (IF \E r \in Runs : Active(runs[r]) THEN {1} ELSE Deltas) :
            now' = now + delta
    /\ UNCHANGED <<tz, redis, ALLOWED_LINE_USER_ID, CHANNEL_ACCESS_TOKEN, CRON_SECRET, handlers, batch, tasks, state, runs, pushes, replies, idClock, nStarted, nTurns, nCancelled>>

(***************************************************************************)
(* textEventHandler: the conversation state machine.  A stored state is    *)
(* { type, step?, taskName?, priority? }; hasName and hasPriority tell     *)
(* whether the optional fields are present.                                *)
(***************************************************************************)
IdleState ==
    [type |-> "idle", step |-> "none", hasName |-> FALSE, taskName |-> <<>>,
     hasPriority |-> FALSE, priority |-> 0]

AddState(step, hasName, taskName, hasPriority, priority) ==
    [type |-> "task_add", step |-> step, hasName |-> hasName, taskName |-> taskName,
     hasPriority |-> hasPriority, priority |-> priority]

AskState(type) == [IdleState EXCEPT !.type = type, !.step = "asking_index"]

\* The texts the handler compares with ===, each one literal token.
CancelKyanseru == <<Lit("kyanseru")>>
CancelYameru == <<Lit("yameru")>>
CancelChuushi == <<Lit("chuushi")>>
CancelCancel == <<Lit("cancel")>>
CmdTaskAdd == <<Lit("tasuku-tsuika")>>
CmdTaskList == <<Lit("tasuku")>>
CmdTaskComplete == <<Lit("tasuku-kanryou")>>
CmdTaskDelete == <<Lit("tasuku-sakujo")>>
\* "未定", the name and the priority of a state without them
Mitei == <<Lit("mitei")>>

\* The cancel test with one keyword forgotten.
isCancelCommandWithoutChuushi(text) ==
    text = CancelKyanseru \/ text = CancelYameru \/ text = CancelCancel

isCancelCommand(text) ==
    text = CancelKyanseru \/ text = CancelYameru \/ text = CancelChuushi \/ text = CancelCancel

Reply(k, text, list) == [k |-> k, text |-> text, list |-> list]
NoReply == Reply("none", <<>>, <<>>)

Outcome(st, list, reply, idc) == [state |-> st, tasks |-> list, reply |-> reply, idClock |-> idc]

\* A deadline step that gives the flow up when the text is rejected.
StepDeadlineGivesUp(st, list, deadlineStr, idc) ==
    IF deadlineStr = Rejected
    THEN Outcome(IdleState, list, Reply("bad-deadline", <<>>, <<>>), idc)
    ELSE Outcome(IdleState,
                 addTask(list, [id |-> idc + 1,
                                name |-> IF st.hasName THEN st.taskName ELSE Mitei,
                                priority |-> IF st.hasPriority /\ st.priority # Null THEN st.priority ELSE 1,
                                deadline |-> deadlineStr,
                                remindersSent |-> <<>>]),
                 Reply("task-added", <<>>, <<>>), idc + 1)

\* The step "deadline" of the add flow, deadlineStr being parseDeadlineInput(text).
StepDeadline(st, list, deadlineStr, idc) ==
    IF deadlineStr = Rejected
    THEN Outcome(st, list, Reply("bad-deadline", <<>>, <<>>), idc)
    ELSE Outcome(IdleState,
                 addTask(list, [id |-> idc + 1,
                                name |-> IF st.hasName THEN st.taskName ELSE Mitei,
                                priority |-> IF st.hasPriority /\ st.priority # Null THEN st.priority ELSE 1,
                                deadline |-> deadlineStr,
                                remindersSent |-> <<>>]),
                 Reply("task-added", <<>>, <<>>), idc + 1)

\* A priority step that does not copy the draft name into the next state.
StepPriorityDropsName(st, list, p, idc) ==
    IF JsLt(p, 1) \/ JsGt(p, 4)
    THEN Outcome(st, list, Reply("bad-priority", <<>>, <<>>), idc)
    ELSE Outcome(AddState("deadline", FALSE, <<>>, TRUE, p),
                 list, Reply("ask-deadline", <<>>, <<>>), idc)

\* The step "priority" of the add flow, p being parseInt(text, 10).
StepPriority(st, list, p, idc) ==
    IF JsLt(p, 1) \/ JsGt(p, 4)
    THEN Outcome(st, list, Reply("bad-priority", <<>>, <<>>), idc)
    ELSE Outcome(AddState("deadline", TRUE, IF st.hasName THEN st.taskName ELSE Mitei,
                          TRUE, p),
                 list, Reply("ask-deadline", <<>>, <<>>), idc)

\* The complete and delete flows, num being parseInt(text, 10).
StepIndex(st, list, num, idc) ==
    IF num = NaN \/ num < 1 \/ num > Len(list)
    THEN Outcome(st, list,
                 Reply(IF st.type = "task_complete" THEN "bad-index-complete"
                       ELSE "bad-index-delete", <<>>, list), idc)
    ELSE Outcome(IdleState, removeTaskByIndex(list, num),
                 Reply(IF st.type = "task_complete" THEN "completed" ELSE "deleted",
                       <<>>, <<>>), idc)

\* Commands that ask for an index even when there is no task.
CommandsAlwaysAsk(st, list, text, idc) ==
    IF text = CmdTaskAdd THEN
        Outcome(AddState("task_name", FALSE, <<>>, FALSE, 0), list,
                Reply("ask-name", <<>>, <<>>), idc)
    ELSE IF text = CmdTaskList THEN
        Outcome(st, list, Reply("list", <<>>, list), idc)
    ELSE IF text = CmdTaskComplete \/ text = CmdTaskDelete THEN
        Outcome(AskState(IF text = CmdTaskComplete THEN "task_complete" ELSE "task_delete"),
                list,
                Reply(IF text = CmdTaskComplete THEN "ask-index-complete"
                      ELSE "ask-index-delete", <<>>, list), idc)
    ELSE Outcome(st, list, Reply("echo", text, <<>>), idc)

\* The commands, read when no flow is under way.
Commands(st, list, text, idc) ==
    IF text = CmdTaskAdd THEN
        Outcome(AddState("task_name", FALSE, <<>>, FALSE, 0), list,
                Reply("ask-name", <<>>, <<>>), idc)
    ELSE IF text = CmdTaskList THEN
        Outcome(st, list, Reply("list", <<>>, list), idc)
    ELSE IF text = CmdTaskComplete \/ text = CmdTaskDelete THEN
        IF Len(list) = 0
        THEN Outcome(st, list, Reply("no-tasks", <<>>, <<>>), idc)
        ELSE Outcome(AskState(IF text = CmdTaskComplete THEN "task_complete" ELSE "task_delete"),
                     list,
                     Reply(IF text = CmdTaskComplete THEN "ask-index-complete"
                           ELSE "ask-index-delete", <<>>, list), idc)
    ELSE Outcome(st, list, Reply("echo", text, <<>>), idc)

\* A cancel that is confirmed but leaves the stored state as it was.
HandleTextCancelKeepsState(st, list, text, t, idc) ==
    IF isCancelCommand(text) /\ st.type # "idle" THEN
        Outcome(st, list, Reply("cancelled-add", <<>>, <<>>), idc)
    ELSE IF st.type = "task_add" /\ st.step = "task_name" THEN
        Outcome(AddState("priority", TRUE, text, FALSE, 0), list,
                Reply("ask-priority", <<>>, <<>>), idc)
    ELSE IF st.type = "task_add" /\ st.step = "priority" THEN
        StepPriority(st, list, parseInt(text), idc)
    ELSE IF st.type = "task_add" /\ st.step = "deadline" THEN
        StepDeadline(st, list, parseDeadlineInput(text, t), idc)
    ELSE IF st.type = "task_complete" \/ st.type = "task_delete" THEN
        StepIndex(st, list, parseInt(text), idc)
    ELSE Commands(st, list, text, idc)

HandleText(st, list, text, t, idc) ==
    IF isCancelCommand(text) /\ st.type # "idle" THEN
        Outcome(IdleState, list,
                Reply(IF st.type = "task_add" THEN "cancelled-add"
                      ELSE IF st.type = "task_delete" THEN "cancelled-delete"
                      ELSE "cancelled-complete", <<>>, <<>>), idc)
    ELSE IF st.type = "task_add" /\ st.step = "task_name" THEN
        Outcome(AddState("priority", TRUE, text, FALSE, 0), list,
                Reply("ask-priority", <<>>, <<>>), idc)
    ELSE IF st.type = "task_add" /\ st.step = "priority" THEN
        StepPriority(st, list, parseInt(text), idc)
    ELSE IF st.type = "task_add" /\ st.step = "deadline" THEN
        StepDeadline(st, list, parseDeadlineInput(text, t), idc)
    ELSE IF st.type = "task_complete" \/ st.type = "task_delete" THEN
        StepIndex(st, list, parseInt(text), idc)
    ELSE Commands(st, list, text, idc)

\* A handler that takes the text as it was typed.
textEventHandlerWithoutTrim(st, list, rawText, t, idc) == HandleText(st, list, rawText, t, idc)

\* textEventHandler for a text message of the allow-listed user, handled at
\* instant t with st and list read from the store; idc is the rank of the
\* last Date.now() reading that became a task id.
textEventHandler(st, list, rawText, t, idc) == HandleText(st, list, trim(rawText), t, idc)

\* JSON.stringify of a conversation state and of a task list: NaN is
\* written as null; JSON.parse gives the rest back as it was.
stringifyPriority(p) == IF p = NaN THEN Null ELSE p
stringifyState(st) == [st EXCEPT !.priority = stringifyPriority(@)]
stringifyTasks(list) ==
    [j \in 1..Len(list) |-> [list[j] EXCEPT !.priority = stringifyPriority(@)]]

\* What setState, addTask and removeTaskByIndex leave in the store: the JSON
\* text in Redis, the objects themselves in the Maps.
Stored(durable, out) ==
    IF durable
    THEN [out EXCEPT !.state = stringifyState(@), !.tasks = stringifyTasks(@)]
    ELSE out

\* One event handled from the store s (state, tasks, idClock) at instant t:
\* what it leaves in the store, and its reply.
Handled(durable, s, text, t) ==
    Stored(durable, textEventHandler(s.state, s.tasks, text, t, s.idClock))

\* Events handled one after the other, each reading what the one before
\* has stored.
RECURSIVE Conversation(_, _, _, _)
Conversation(durable, s, texts, t) ==
    IF texts = <<>> THEN s
    ELSE Conversation(durable, Handled(durable, s, texts[1], t), Drop(texts, 1), t)

\* A text typed with blanks around it, and "1番": an index followed by a word.
PaddedTea == <<Lit("sp"), Lit("tea"), Lit("sp")>>
FirstOne == <<Num(1), Lit("ban")>>

\* The texts the user sends.
Texts ==
    { CancelKyanseru, CancelYameru, CancelChuushi, CancelCancel,
      CmdTaskAdd, CmdTaskList, CmdTaskComplete, CmdTaskDelete,
      <<Lit("milk")>>, PaddedTea,
      <<Num(1)>>, <<Num(2)>>, <<Num(5)>>, FirstOne,
      <<Lit("myou"), Lit("nichi")>>,
      <<Num(3), Lit("gatsu"), Num(20), Lit("nichi"), Num(15), Lit("ji")>>,
      <<Num(13), Lit("gatsu"), Num(1), Lit("nichi")>> }

\* The users that send events: the owner, somebody else, and an event that
\* carries no userId (getUserId gives null).
Me == "U-me"
Senders == {Me, "U-other", "null"}

\* An allow check that lets everybody in when no identity is configured.
isAllowedUserOrUnconfigured(userId) ==
    ALLOWED_LINE_USER_ID = "" \/ userId = ALLOWED_LINE_USER_ID

isAllowedUser(userId) ==
    ALLOWED_LINE_USER_ID # "" /\ userId = ALLOWED_LINE_USER_ID

\* One text event of sender userId, delivered when the store of the
\* configured identity is s.  The handler returns before it reads or writes
\* a store, and without a reply, unless the sender is that identity; so no
\* other user ever has a stored state or list.
Delivered(userId, s, text, t) ==
    IF isAllowedUser(userId) THEN Handled(redis, s, text, t)
    ELSE [s EXCEPT !.reply = NoReply]

\* The replies that confirm a cancel.
CancelReplies == {"cancelled-add", "cancelled-delete", "cancelled-complete"}

\* POST /webhook with one text message, handled from its reads to its
\* reply; out is what textEventHandler stores and sends (no reply and the
\* store as it was, for an event that is ignored).
Apply(out) ==
    /\ Len(out.tasks) <= MaxTasks
    /\ out.idClock <= MaxIds
    /\ state' = out.state
    /\ tasks' = out.tasks
    /\ replies' = out.reply
    /\ idClock' = out.idClock
    /\ nCancelled' = IF out.reply.k \in CancelReplies THEN nCancelled + 1 ELSE nCancelled

WebhookFrom(userId, limit, text) ==
    /\ nTurns < limit
    /\ nTurns' = nTurns + 1
    /\ Apply(Delivered(userId, Outcome(state, tasks, replies, idClock), text, now))
    /\ UNCHANGED <<now, tz, redis, ALLOWED_LINE_USER_ID, CHANNEL_ACCESS_TOKEN, CRON_SECRET, handlers, batch, runs, pushes, nStarted, nAdvanced>>

\* The events of the owner.
WebhookWithin(limit, text) == WebhookFrom(Me, limit, text)

Webhook(text) == WebhookWithin(MaxTurns, text)

\* A conversation about two tasks, long enough for a flow that is cancelled
\* and then started again.
FlowTexts ==
    { CancelCancel, CmdTaskAdd, <<Lit("milk")>>, <<Lit("tea")>>, <<Num(1)>>, <<Num(2)>>,
      <<Lit("myou"), Lit("nichi")>> }

FlowTurn(text) == WebhookWithin(MaxFlowTurns, text)

\* Events of every sender, in a conversation of the owner.
\* "my id", as typed in lower and in upper case: a text like any other to
\* the handler, which has no branch for it.
MyIdTexts == {<<Lit("my id")>>, <<Lit("MY ID")>>}

GateTexts ==
    { CancelCancel, CmdTaskAdd, CmdTaskDelete, <<Lit("milk")>>, <<Num(1)>>,
      <<Lit("myou"), Lit("nichi")>>, <<Lit("my id")>> }

GateTurn(userId, text) == WebhookFrom(userId, MaxTurns, text)

(***************************************************************************)
(* POST /webhook with a batch of events: Promise.all starts a handler for  *)
(* every event, and the handlers take turns at their awaits.  pc names the *)
(* await a handler is at: getState, getTasks, then the calls of its branch *)
(* (addTask and removeTaskByIndex each read the list and then store it),   *)
(* setState and the reply.                                                 *)
(***************************************************************************)
Events == {1, 2}

NoEvent ==
    [pc |-> "idle", text |-> <<>>, st |-> IdleState, list |-> <<>>,
     out |-> Outcome(IdleState, <<>>, NoReply, 0)]

NoBatch == [open |-> FALSE, hasError |-> FALSE, status |-> 0]

Settled(h) == h.pc \in {"idle", "done", "failed"}

\* The replies of the branches that call setState.
StateReplies ==
    CancelReplies \cup {"ask-name", "ask-priority", "ask-deadline", "task-added",
                        "completed", "deleted", "ask-index-complete", "ask-index-delete"}

\* The first await of the branch that answers with reply k.
FirstCall(k) ==
    IF k = "task-added" THEN "addRead"
    ELSE IF k \in {"completed", "deleted"} THEN "rmRead"
    ELSE IF k \in StateReplies THEN "setState"
    ELSE "reply"

\* What a store call writes: JSON in Redis, the object in the Maps.
WrittenTasks(list) == IF redis THEN stringifyTasks(list) ELSE list
WrittenState(st) == IF redis THEN stringifyState(st) ELSE st

\* The request arrives with its events, all of the owner; every handler
\* runs up to `await getState(uid)`.
BatchArrive(texts) ==
    /\ ~batch.open
    /\ isAllowedUser(Me)
    /\ nTurns + Len(texts) <= MaxBatchTurns
    /\ nTurns' = nTurns + Len(texts)
    /\ handlers' = [e \in Events |->
                        IF e <= Len(texts)
                        THEN [NoEvent EXCEPT !.pc = "getState", !.text = trim(texts[e])]
                        ELSE NoEvent]
    /\ batch' = [open |-> TRUE, hasError |-> FALSE, status |-> 0]
    /\ UNCHANGED <<now, tz, redis, ALLOWED_LINE_USER_ID, CHANNEL_ACCESS_TOKEN, CRON_SECRET, tasks, state, runs, pushes, replies, idClock, nStarted, nAdvanced, nCancelled>>

\* `await getState(uid)` resolves.
HandlerGetState(e) ==
    /\ handlers[e].pc = "getState"
    /\ handlers' = [handlers EXCEPT ![e].pc = "getTasks", ![e].st = state]
    /\ UNCHANGED <<now, tz, redis, ALLOWED_LINE_USER_ID, CHANNEL_ACCESS_TOKEN, CRON_SECRET, batch, tasks, state, runs, pushes, replies, idClock, nStarted, nAdvanced, nTurns, nCancelled>>

\* The Date.now() readings a handler can get for a task id: a reading later
\* than every one before (idc + 1 for idc = idClock), or the reading that
\* another handler of the batch has just got, in the same millisecond.
IdReadings(e) ==
    {idClock} \cup
    { idClock - 1 : e2 \in { x \in Events \ {e} : /\ ~Settled(handlers[x])
                                                    /\ handlers[x].out.reply.k = "task-added"
                                                    /\ handlers[x].out.idClock = idClock } }

\* The handler between `await getTasks(uid)` and the first await of its
\* branch: out is what textEventHandler makes of the state and list read.
Branch(e, out) ==
    /\ out.idClock <= MaxIds
    /\ handlers' = [handlers EXCEPT ![e].pc = FirstCall(out.reply.k), ![e].list = tasks,
                                    ![e].out = out]
    /\ idClock' = IF out.idClock > idClock THEN out.idClock ELSE idClock

\* `await getTasks(uid)` resolves.
HandlerGetTasks(e) ==
    /\ handlers[e].pc = "getTasks"
    /\ \E idc \in IdReadings(e) :
            Branch(e, textEventHandler(handlers[e].st, tasks, handlers[e].text, now, idc))
    /\ UNCHANGED <<now, tz, redis, ALLOWED_LINE_USER_ID, CHANNEL_ACCESS_TOKEN, CRON_SECRET, batch, tasks, state, runs, pushes, replies, nStarted, nAdvanced, nTurns, nCancelled>>

\* addTask and removeTaskByIndex: `await getTasks(userId)` resolves.
HandlerListRead(e) ==
    /\ handlers[e].pc \in {"addRead", "rmRead"}
    /\ handlers' = [handlers EXCEPT
                        ![e].list = tasks,
                        ![e].pc = IF handlers[e].pc = "addRead" THEN "addWrite"
                                  ELSE IF removeTaskByIndex(tasks, parseInt(handlers[e].text)) = tasks
                                       THEN "setState"
                                       ELSE "rmWrite"]
    /\ UNCHANGED <<now, tz, redis, ALLOWED_LINE_USER_ID, CHANNEL_ACCESS_TOKEN, CRON_SECRET, batch, tasks, state, runs, pushes, replies, idClock, nStarted, nAdvanced, nTurns, nCancelled>>

\* The task the deadline step has built from the state it read.
BuiltTask(h) ==
    textEventHandler(h.st, <<>>, h.text, now, h.out.idClock - 1).tasks[1]

\* addTask and removeTaskByIndex: the list is stored.
HandlerListWrite(e) ==
    /\ handlers[e].pc \in {"addWrite", "rmWrite"}
    /\ tasks' = WrittenTasks(IF handlers[e].pc = "addWrite"
                              THEN addTask(handlers[e].list, BuiltTask(handlers[e]))
                              ELSE removeTaskByIndex(handlers[e].list, parseInt(handlers[e].text)))
    /\ Len(tasks') <= MaxTasks + 1
    /\ handlers' = [handlers EXCEPT ![e].pc = "setState"]
    /\ UNCHANGED <<now, tz, redis, ALLOWED_LINE_USER_ID, CHANNEL_ACCESS_TOKEN, CRON_SECRET, batch, state, runs, pushes, replies, idClock, nStarted, nAdvanced, nTurns, nCancelled>>

\* `await setState(uid, ...)` resolves.
HandlerSetState(e) ==
    /\ handlers[e].pc = "setState"
    /\ state' = WrittenState(handlers[e].out.state)
    /\ handlers' = [handlers EXCEPT ![e].pc = "reply"]
    /\ UNCHANGED <<now, tz, redis, ALLOWED_LINE_USER_ID, CHANNEL_ACCESS_TOKEN, CRON_SECRET, batch, tasks, runs, pushes, replies, idClock, nStarted, nAdvanced, nTurns, nCancelled>>

\* `await reply(...)` resolves and the handler returns.
HandlerReply(e) ==
    /\ handlers[e].pc = "reply"
    /\ replies' = handlers[e].out.reply
    /\ nCancelled' = IF handlers[e].out.reply.k \in CancelReplies THEN nCancelled + 1 ELSE nCancelled
    /\ handlers' = [handlers EXCEPT ![e].pc = "done"]
    /\ UNCHANGED <<now, tz, redis, ALLOWED_LINE_USER_ID, CHANNEL_ACCESS_TOKEN, CRON_SECRET, batch, tasks, state, runs, pushes, idClock, nStarted, nAdvanced, nTurns>>

\* A failure that makes the whole request fail at once, as Promise.all
\* does with handlers that are not wrapped in try/catch.
HandlerFailRejectsAll(e) ==
    /\ ~Settled(handlers[e])
    /\ handlers' = [handlers EXCEPT ![e].pc = "failed"]
    /\ batch' = [open |-> FALSE, hasError |-> TRUE, status |-> 500]
    /\ UNCHANGED <<now, tz, redis, ALLOWED_LINE_USER_ID, CHANNEL_ACCESS_TOKEN, CRON_SECRET, tasks, state, runs, pushes, replies, idClock, nStarted, nAdvanced, nTurns, nCancelled>>

\* The await of a handler rejects (the store or the reply call fails): the
\* catch around this handler sets hasError.
HandlerFail(e) ==
    /\ ~Settled(handlers[e])
    /\ handlers' = [handlers EXCEPT ![e].pc = "failed"]
    /\ batch' = [batch EXCEPT !.hasError = TRUE]
    /\ UNCHANGED <<now, tz, redis, ALLOWED_LINE_USER_ID, CHANNEL_ACCESS_TOKEN, CRON_SECRET, tasks, state, runs, pushes, replies, idClock, nStarted, nAdvanced, nTurns, nCancelled>>

\* Promise.all resolves when every handler has settled: 500 or 200.
BatchRespond ==
    /\ batch.open
    /\ \A e \in Events : Settled(handlers[e])
    /\ batch' = [batch EXCEPT !.open = FALSE, !.status = IF batch.hasError THEN 500 ELSE 200]
    /\ UNCHANGED <<now, tz, redis, ALLOWED_LINE_USER_ID, CHANNEL_ACCESS_TOKEN, CRON_SECRET, handlers, tasks, state, runs, pushes, replies, idClock, nStarted, nAdvanced, nTurns, nCancelled>>

\* The texts of the events of a batch, and the batches: one event or two.
BatchTexts ==
    { CmdTaskAdd, <<Lit("milk")>>, <<Num(2)>>, <<Lit("myou"), Lit("nichi")>>,
      CmdTaskDelete, <<Num(1)>> }
Batches == { <<a>> : a \in BatchTexts } \cup { <<a, b>> : a, b \in BatchTexts }

(***************************************************************************)
(* Initial states.  The store outlives the process, so an invocation can   *)
(* find any list that earlier add flows have stored: sorted by priority,   *)
(* ids in creation order, deadlines in the normalised form.                *)
(***************************************************************************)
\* The server runs in UTC (the deployment) or in UTC+9 (a local run).
TZOffsets == {0, JSTOffsetMinutes}

\* The instant of a UTC+9 wall-clock reading.
JST(y, m, d, hour, minute) == DateUTC(y, m - 1, d, hour, minute) - JSTOffsetMinutes * TicksPerMinute

StartInstants ==
    { JST(2025, 3, 10, 8, 48), JST(2025, 3, 10, 9, 48), JST(2025, 3, 10, 11, 48),
      JST(2025, 3, 10, 13, 48), JST(2025, 3, 10, 17, 48), JST(2025, 3, 10, 21, 48) }

Deadlines ==
    { formatDeadline(3, 10, TRUE, 10, FALSE, 0),
      formatDeadline(3, 10, TRUE, 9, TRUE, 30),
      formatDeadline(3, 20, TRUE, 15, FALSE, 0),
      formatDeadline(3, 18, FALSE, 0, FALSE, 0) }

\* The priorities of stored tasks: state.priority ?? 1 of a state read from Redis.
Priorities == {1, 2, 3, 4}

StoredTask(id, priority, deadline) ==
    [id |-> id, name |-> <<Lit("milk")>>, priority |-> priority, deadline |-> deadline,
     remindersSent |-> <<>>]

InitStores ==
    {<<>>}
    \cup { <<StoredTask(1, p, d)>> : p \in Priorities, d \in Deadlines }
    \cup { addTask(<<StoredTask(1, pq[1], d)>>, StoredTask(2, pq[2], d)) :
              pq \in {<<1, 4>>, <<4, 1>>, <<2, 3>>, <<4, 4>>}, d \in Deadlines }

\* Nothing in flight and nothing sent yet.
InitQuiet ==
    /\ handlers = [e \in Events |-> NoEvent]
    /\ batch = NoBatch
    /\ runs = [r \in Runs |-> IdleRun]
    /\ pushes = <<>>
    /\ replies = NoReply
    /\ nStarted = 0
    /\ nAdvanced = 0
    /\ nTurns = 0
    /\ nCancelled = 0

InitRest ==
    /\ state = IdleState
    /\ InitQuiet

\* GET /remind only acts with Redis and the identity configured.
InitWith(stores, instants) ==
    /\ tz \in TZOffsets
    /\ redis = TRUE
    /\ ALLOWED_LINE_USER_ID = Me
    /\ CHANNEL_ACCESS_TOKEN = "token"
    /\ CRON_SECRET = ""
    /\ now \in instants
    /\ tasks \in stores
    /\ idClock = Len(tasks)
    /\ InitRest

Init == InitWith(InitStores, StartInstants)

\* The lists and instants of the specifications that interleave more.
FewStores ==
    { <<>>,
      <<StoredTask(1, 4, formatDeadline(3, 10, TRUE, 10, FALSE, 0))>>,
      addTask(<<StoredTask(1, 4, formatDeadline(3, 10, TRUE, 9, TRUE, 30))>>,
              StoredTask(2, 4, formatDeadline(3, 10, TRUE, 9, TRUE, 30))) }

FewInstants == { JST(2025, 3, 10, 8, 48), JST(2025, 3, 10, 17, 48) }

InitFew == InitWith(FewStores, FewInstants)

\* The conversation starts with what Redis holds, or with the empty Maps of
\* a process without Redis.  The handler reads no local time.
InitStore ==
    /\ tz = 0
    /\ CHANNEL_ACCESS_TOKEN = "token"
    /\ CRON_SECRET = ""
    /\ redis \in BOOLEAN
    /\ now \in FewInstants
    /\ tasks \in (IF redis THEN FewStores ELSE {<<>>})
    /\ idClock = Len(tasks)
    /\ InitRest

InitChat == ALLOWED_LINE_USER_ID = Me /\ InitStore

\* A deployment with the identity configured, or with none.
InitGate == ALLOWED_LINE_USER_ID \in {"", Me} /\ InitStore

\* The add flow from an empty store, at instants around the ends of months
\* and of the year, where a relative deadline falls into the next one.
ParseInstants ==
    { JST(2025, 3, 10, 8, 48), JST(2025, 12, 31, 23, 30), JST(2025, 2, 28, 0, 10),
      JST(2024, 2, 28, 12, 0) }

InitParse ==
    /\ tz = 0
    /\ redis \in BOOLEAN
    /\ ALLOWED_LINE_USER_ID = Me
    /\ CHANNEL_ACCESS_TOKEN = "token"
    /\ CRON_SECRET = ""
    /\ now \in ParseInstants
    /\ tasks = <<>>
    /\ idClock = 0
    /\ InitRest

\* Every configuration of GET /remind, over the lists the conversation has
\* stored (in Redis, or in the Maps of the process).
InitTrigger ==
    /\ tz = 0
    /\ redis \in BOOLEAN
    /\ ALLOWED_LINE_USER_ID \in {"", Me}
    /\ CHANNEL_ACCESS_TOKEN \in {"", "token"}
    /\ CRON_SECRET \in {"", "secret"}
    /\ now \in FewInstants
    /\ tasks \in (IF ALLOWED_LINE_USER_ID = "" /\ ~redis THEN {<<>>} ELSE FewStores)
    /\ idClock = Len(tasks)
    /\ InitRest

\* The repository functions called one after the other, as the deadline
\* step, the index steps and the dispatch loop call them.  A task gets the
\* priority of the state the deadline step has read: an integer, or NaN
\* when the state comes from the Map (Redis gives null, which becomes 1).
RepoPriorities == IF redis THEN 1..4 ELSE (1..4) \cup {NaN}

RepoAdd(priority) ==
    /\ Len(tasks) < MaxRepoTasks
    /\ idClock < MaxRepoIds
    /\ tasks' = (IF redis THEN stringifyTasks(addTask(tasks, StoredTask(idClock + 1, priority, formatDeadline(3, 20, TRUE, 15, FALSE, 0))))
                 ELSE addTask(tasks, StoredTask(idClock + 1, priority, formatDeadline(3, 20, TRUE, 15, FALSE, 0))))
    /\ idClock' = idClock + 1
    /\ UNCHANGED <<now, tz, redis, ALLOWED_LINE_USER_ID, CHANNEL_ACCESS_TOKEN, CRON_SECRET, handlers, batch, state, runs, pushes, replies, nStarted, nAdvanced, nTurns, nCancelled>>

RepoRemove(oneBasedIndex) ==
    /\ tasks' = removeTaskByIndex(tasks, oneBasedIndex)
    /\ tasks' # tasks
    /\ UNCHANGED <<now, tz, redis, ALLOWED_LINE_USER_ID, CHANNEL_ACCESS_TOKEN, CRON_SECRET, handlers, batch, state, runs, pushes, replies, idClock, nStarted, nAdvanced, nTurns, nCancelled>>

\* updateTask is only called by GET /remind, which needs Redis.
RepoUpdate(taskId, slotKey) ==
    /\ redis
    /\ \A j \in 1..Len(tasks) : tasks[j].id = taskId => slotKey \notin sentOf(tasks[j])
    /\ tasks' = stringifyTasks(updateTaskList(tasks, taskId, slotKey))
    /\ tasks' # tasks
    /\ UNCHANGED <<now, tz, redis, ALLOWED_LINE_USER_ID, CHANNEL_ACCESS_TOKEN, CRON_SECRET, handlers, batch, state, runs, pushes, replies, idClock, nStarted, nAdvanced, nTurns, nCancelled>>

(***************************************************************************)
(* Specifications.                                                         *)
(***************************************************************************)
\* Every interleaving of overlapping GET /remind invocations, failing sends
\* and stores, chat messages and the clock.
Next ==
    \/ \E r \in Runs : RemindStart(r)
    \/ \E r \in Runs : PushOk(r)
    \/ \E r \in Runs : PushFail(r)
    \/ \E r \in Runs : UpdateRead(r)
    \/ \E r \in Runs : UpdateWrite(r)
    \/ \E r \in Runs : UpdateFail(r)
    \/ \E text \in Texts : Webhook(text)
    \/ Advance

Spec == InitFew /\ [][Next]_vars

\* The dispatch loop alone: overlapping invocations, failing sends and stores.
NextDispatch ==
    \/ \E r \in Runs : RemindStart(r)
    \/ \E r \in Runs : PushOk(r)
    \/ \E r \in Runs : PushFail(r)
    \/ \E r \in Runs : UpdateRead(r)
    \/ \E r \in Runs : UpdateWrite(r)
    \/ \E r \in Runs : UpdateFail(r)
    \/ Advance

SpecDispatch == InitFew /\ [][NextDispatch]_vars

\* Non-overlapping invocations in which every push and every updateTask
\* succeeds.
NoRunActive == \A r \in Runs : runs[r].pc \in {"idle", "done", "crashed"}

NextSeq ==
    \/ (NoRunActive /\ RemindStart(1))
    \/ PushOk(1)
    \/ UpdateRead(1)
    \/ UpdateWrite(1)
    \/ Advance

SpecSeq == Init /\ [][NextSeq]_vars

\* Non-overlapping invocations whose pushes and stores may fail, over every
\* stored list and from the two instants.
NextFailing ==
    \/ (NoRunActive /\ RemindStart(1))
    \/ PushOk(1)
    \/ PushFail(1)
    \/ UpdateRead(1)
    \/ UpdateWrite(1)
    \/ UpdateFail(1)
    \/ Advance

SpecFailing == InitWith(InitStores, FewInstants) /\ [][NextFailing]_vars

\* Non-overlapping invocations whose pushes and stores may fail and which
\* may die at any await.
NextCrash ==
    \/ (NoRunActive /\ RemindStart(1))
    \/ PushOk(1)
    \/ PushFail(1)
    \/ UpdateRead(1)
    \/ UpdateWrite(1)
    \/ UpdateFail(1)
    \/ Crash(1)
    \/ Advance

SpecCrash == InitWith(InitStores, FewInstants) /\ [][NextCrash]_vars

\* Non-overlapping requests to GET /remind, with and without the secret,
\* under every configuration.
NextTrigger ==
    \/ (NoRunActive /\ RemindStart(1))
    \/ (NoRunActive /\ RemindUnauthorized(1))
    \/ PushOk(1)
    \/ PushFail(1)
    \/ UpdateRead(1)
    \/ UpdateWrite(1)
    \/ UpdateFail(1)
    \/ Advance

SpecTrigger == InitTrigger /\ [][NextTrigger]_vars

\* Add flows whose deadline step is given deadlines of every form.
ParseTexts ==
    { CmdTaskAdd, <<Lit("milk")>>, <<Num(2)>>,
      <<Lit("myou"), Lit("nichi"), Lit("no"), Num(15), Lit("ji")>>,
      <<Num(30), Lit("nichi"), Lit("go")>>,
      <<NumW(100000000, 9), Lit("nichi"), Lit("go")>>,
      <<NumW(3, 2), Lit("gatsu"), Num(20), Lit("nichi"), Num(15), Lit("ji"), Num(30), Lit("fun")>> }

NextParse ==
    \/ \E text \in ParseTexts : Webhook(text)
    \/ Advance

SpecParse == InitParse /\ [][NextParse]_vars

\* Webhook requests one after the other, each with one or two events of
\* the owner, whose handlers interleave and may fail.
NextBatch ==
    \/ \E texts \in Batches : BatchArrive(texts)
    \/ \E e \in Events : HandlerGetState(e)
    \/ \E e \in Events : HandlerGetTasks(e)
    \/ \E e \in Events : HandlerListRead(e)
    \/ \E e \in Events : HandlerListWrite(e)
    \/ \E e \in Events : HandlerSetState(e)
    \/ \E e \in Events : HandlerReply(e)
    \/ \E e \in Events : HandlerFail(e)
    \/ BatchRespond

InitBatchAt(instants) ==
    /\ ALLOWED_LINE_USER_ID = Me
    /\ tz = 0
    /\ CHANNEL_ACCESS_TOKEN = "token"
    /\ CRON_SECRET = ""
    /\ redis = TRUE
    /\ now \in instants
    /\ tasks \in {<<>>, <<StoredTask(1, 4, formatDeadline(3, 10, TRUE, 10, FALSE, 0))>>}
    /\ idClock = Len(tasks)
    /\ state \in {IdleState, AddState("deadline", TRUE, <<Lit("milk")>>, TRUE, 2)}
    /\ InitQuiet

InitBatch == InitBatchAt({JST(2025, 3, 10, 8, 48)})

SpecBatch == InitBatch /\ [][NextBatch]_vars

\* One invocation of GET /remind at a time next to webhook requests of one
\* event: the awaits of the dispatch loop and of the handler interleave.
NextMixed ==
    \/ (NoRunActive /\ RemindStart(1))
    \/ PushOk(1)
    \/ UpdateRead(1)
    \/ UpdateWrite(1)
    \/ \E text \in BatchTexts : BatchArrive(<<text>>)
    \/ HandlerGetState(1)
    \/ HandlerGetTasks(1)
    \/ HandlerListRead(1)
    \/ HandlerListWrite(1)
    \/ HandlerSetState(1)
    \/ HandlerReply(1)
    \/ BatchRespond
    \/ Advance

\* A server on UTC reads the stored deadline of 10:00 as 19:00 JST: the
\* window of its slot `1h` opens at 18:00 JST.
InitMixed == InitBatchAt({JST(2025, 3, 10, 17, 48)})

SpecMixed == InitMixed /\ [][NextMixed]_vars

\* The conversation alone.
NextChat ==
    \/ \E text \in Texts : Webhook(text)
    \/ Advance

SpecChat == InitChat /\ [][NextChat]_vars

\* The repository functions alone.
NextRepo ==
    \/ \E priority \in RepoPriorities : RepoAdd(priority)
    \/ \E oneBasedIndex \in 1..MaxRepoTasks : RepoRemove(oneBasedIndex)
    \/ \E taskId \in 1..MaxRepoIds, slotKey \in {Slot1h, Slot30m} : RepoUpdate(taskId, slotKey)

SpecRepo == InitChat /\ [][NextRepo]_vars

\* The conversation over the texts of the two-task conversation.
NextFlow == \E text \in FlowTexts : FlowTurn(text)

SpecFlow == InitChat /\ [][NextFlow]_vars

\* The conversation with events of other senders in between.
NextGate == \E userId \in Senders, text \in GateTexts : GateTurn(userId, text)

SpecGate == InitGate /\ [][NextGate]_vars

(***************************************************************************)
(* Properties.                                                             *)
(***************************************************************************)
Sent(j) == pushes[j].ok
Pushed == {j \in 1..Len(pushes) : Sent(j)}
JSTHourOf(t) == FieldsAt(t, JSTOffsetMinutes).hour
JSTDateOf(t) == <<FieldsAt(t, JSTOffsetMinutes).y, FieldsAt(t, JSTOffsetMinutes).m,
                  FieldsAt(t, JSTOffsetMinutes).d>>
StoredWithId(id) == {k \in 1..Len(tasks) : tasks[k].id = id}
\* The remaining time of a task as the invocation at instant t sees it.
RemainingAt(task, t) == parseDeadlineToDate(task.deadline, t, tz) - t
Finished(r) == runs[r].pc = "done"

\* C1: over non-overlapping invocations whose pushes and updateTask calls
\* all succeed, no task is pushed the same slot label twice, and a push that
\* is about to be sent carries a label that the stored task has not recorded.
C1_OncePerLabel ==
    /\ \A i, j \in Pushed : (i < j /\ pushes[i].id = pushes[j].id)
                                => pushes[i].label # pushes[j].label
    /\ \A r \in Runs : runs[r].pc = "push" =>
            \A k \in StoredWithId(runs[r].tasks[runs[r].i].id) :
                runs[r].slot \notin sentOf(tasks[k])

\* C1 witness: a second invocation ran to its end later in the hour of a
\* recorded label, found that label due again and pushed nothing.
C1_Witness ==
    /\ nStarted = 2 /\ Finished(1) /\ Len(pushes) = 1
    /\ runs[1].now > pushes[1].at
    /\ \E k \in 1..Len(tasks) :
        /\ tasks[k].id = pushes[1].id
        /\ tasks[k].priority \in {1, 2, 3}
        /\ pushes[1].label \in sentOf(tasks[k])
        /\ slotKeyOf(tasks[k].priority, RemainingAt(tasks[k], runs[1].now),
                     getJSTNow(runs[1].now)) = pushes[1].label

\* C2 (as claimed): also when invocations overlap, a task gets at most one
\* notification for any one slot label.
C2_OncePerLabelOverlapping ==
    \A j \in Pushed :
        Cardinality({i \in Pushed : pushes[i].id = pushes[j].id
                                    /\ pushes[i].label = pushes[j].label}) <= 1

\* C3 (as claimed): an invocation that ran to its end with the remaining
\* time of a task in (30 - 12, 30] and `30m` not among its sent slots pushed
\* `30m` for it and recorded it, whatever the priority of the task.
C3_Final30ForEveryPriority ==
    \A r \in Runs : Finished(r) =>
        \A i \in 1..Len(runs[r].tasks) :
            (/\ InWindow(RemainingAt(runs[r].tasks[i], runs[r].now), 30)
             /\ Slot30m \notin sentOf(runs[r].tasks[i]))
            => /\ \E j \in Pushed : /\ pushes[j].n = runs[r].n
                                    /\ pushes[j].id = runs[r].tasks[i].id
                                    /\ pushes[j].label = Slot30m
               /\ \A k \in StoredWithId(runs[r].tasks[i].id) : Slot30m \in sentOf(tasks[k])

\* C4 (as claimed): once the clock is past the deadline instant a task had
\* when it was reminded, no later invocation pushes for it.
C4_NoPushAfterDeadline ==
    \A i, j \in Pushed :
        (i < j /\ pushes[i].id = pushes[j].id)
            => pushes[j].at <= pushes[i].at + pushes[i].rem

FarPush(j, priority) == Sent(j) /\ pushes[j].priority = priority /\ FarMode(pushes[j].rem)
NearPush(j, priority) == Sent(j) /\ pushes[j].priority = priority /\ ~FarMode(pushes[j].rem)

\* C5: every notification of a priority-1 task that is pushed with seven
\* or more days remaining is pushed at UTC+9 hour 9, and over non-overlapping
\* successful invocations a task gets at most one of them per UTC+9 date.
C5_Priority1FarOncePerDayAt9 ==
    /\ \A j \in Pushed : FarPush(j, 1) => JSTHourOf(pushes[j].at) = 9
    /\ \A i, j \in Pushed :
        (i < j /\ FarPush(i, 1) /\ FarPush(j, 1) /\ pushes[i].id = pushes[j].id)
            => JSTDateOf(pushes[i].at) # JSTDateOf(pushes[j].at)

\* C5 witness: a priority-1 task was pushed its far-mode reminder, and a
\* later invocation in hour 9 of the same date ran to its end without a push.
C5_Witness ==
    /\ nStarted = 2 /\ Finished(1) /\ Len(pushes) = 1 /\ FarPush(1, 1)
    /\ runs[1].now > pushes[1].at
    /\ JSTHourOf(runs[1].now) = 9
    /\ JSTDateOf(runs[1].now) = JSTDateOf(pushes[1].at)
    /\ \E i \in 1..Len(runs[1].tasks) :
        /\ runs[1].tasks[i].id = pushes[1].id
        /\ FarMode(RemainingAt(runs[1].tasks[i], runs[1].now))

\* C6: a priority-2 (priority-3) task with seven or more days remaining is
\* pushed a notification only at UTC+9 hour 12 (14) and only when the whole
\* number of remaining days is a positive multiple of 3 (5).
C6_FarMultiplesOnly ==
    \A j \in Pushed :
        /\ FarPush(j, 2) =>
            /\ JSTHourOf(pushes[j].at) = 12
            /\ pushes[j].rem \div TicksPerDay > 0
            /\ (pushes[j].rem \div TicksPerDay) % 3 = 0
        /\ FarPush(j, 3) =>
            /\ JSTHourOf(pushes[j].at) = 14
            /\ pushes[j].rem \div TicksPerDay > 0
            /\ (pushes[j].rem \div TicksPerDay) % 5 = 0

\* C6 witness: a priority-2 task was pushed with nine days remaining, by the
\* second invocation, the first one having pushed nothing.
C6_Witness ==
    /\ Len(pushes) = 1 /\ FarPush(1, 2)
    /\ pushes[1].rem \div TicksPerDay = 9
    /\ pushes[1].n = 2

\* C7: with less than seven days remaining a priority-1 task is pushed only
\* at UTC+9 hours 8, 12, 18, a priority-2 task only at 10, 22, a priority-3
\* task only at 17; the label is the UTC+9 date joined with that hour, and
\* over non-overlapping successful invocations no (date, hour) is notified twice.
NearHours(priority) ==
    IF priority = 1 THEN {8, 12, 18} ELSE IF priority = 2 THEN {10, 22} ELSE {17}

C7_NearHoursOnly ==
    /\ \A j \in Pushed : \A priority \in {1, 2, 3} :
        NearPush(j, priority) =>
            /\ JSTHourOf(pushes[j].at) \in NearHours(priority)
            /\ pushes[j].label = [k |-> "date", d |-> JSTDateOf(pushes[j].at),
                                  n |-> JSTHourOf(pushes[j].at)]
    /\ \A i, j \in Pushed : \A priority \in {1, 2, 3} :
        (i < j /\ NearPush(i, priority) /\ NearPush(j, priority)
               /\ pushes[i].id = pushes[j].id)
            => \/ JSTDateOf(pushes[i].at) # JSTDateOf(pushes[j].at)
               \/ JSTHourOf(pushes[i].at) # JSTHourOf(pushes[j].at)

\* C7 witness: a priority-2 task was pushed its near-mode reminder at hour
\* 10, and a later invocation in the same hour ran to its end without a push.
C7_Witness ==
    /\ nStarted = 2 /\ Finished(1) /\ Len(pushes) = 1 /\ NearPush(1, 2)
    /\ JSTHourOf(pushes[1].at) = 10
    /\ runs[1].now > pushes[1].at
    /\ JSTHourOf(runs[1].now) = 10
    /\ \E i \in 1..Len(runs[1].tasks) :
        /\ runs[1].tasks[i].id = pushes[1].id
        /\ ~FarMode(RemainingAt(runs[1].tasks[i], runs[1].now))
        /\ RemainingAt(runs[1].tasks[i], runs[1].now) >= 0

\* The tasks that take the getReminderSlots path: priority 4 (and whatever
\* is not 1, 2 or 3).
ByMinutes(priority) == priority \notin {1, 2, 3}

HasPush(r, i, label) ==
    \E j \in Pushed : /\ pushes[j].n = runs[r].n
                      /\ pushes[j].id = runs[r].tasks[i].id
                      /\ pushes[j].label = label

\* C8: with W = 12 minutes a priority-4 task is pushed `1h` exactly when
\* the remaining minutes are in (60 - W, 60] and `30m` exactly when they are
\* in (30 - W, 30] (60 and 30 inside, 60 - W and 30 - W outside), and it is
\* never pushed any other label.
C8_Windows ==
    /\ \A j \in Pushed : ByMinutes(pushes[j].priority) =>
        \/ /\ pushes[j].label = Slot1h
           /\ pushes[j].rem <= 60 * TicksPerMinute
           /\ pushes[j].rem > (60 - 12) * TicksPerMinute
        \/ /\ pushes[j].label = Slot30m
           /\ pushes[j].rem <= 30 * TicksPerMinute
           /\ pushes[j].rem > (30 - 12) * TicksPerMinute
    /\ \A r \in Runs : Finished(r) =>
        \A i \in 1..Len(runs[r].tasks) :
            LET task == runs[r].tasks[i]
                rem  == RemainingAt(runs[r].tasks[i], runs[r].now)
            IN  ByMinutes(task.priority) =>
                /\ (rem <= 60 * TicksPerMinute /\ rem > 48 * TicksPerMinute
                        /\ Slot1h \notin sentOf(task)) => HasPush(r, i, Slot1h)
                /\ (rem <= 30 * TicksPerMinute /\ rem > 18 * TicksPerMinute
                        /\ Slot30m \notin sentOf(task)) => HasPush(r, i, Slot30m)

\* C8 witness: `1h` was pushed with exactly 60 minutes remaining, and the
\* invocation exactly 48 minutes before the deadline ran to its end
\* without a push.
C8_Witness ==
    /\ Len(pushes) = 1 /\ Sent(1) /\ pushes[1].priority = 4
    /\ pushes[1].label = Slot1h /\ pushes[1].rem = 60 * TicksPerMinute
    /\ Finished(1) /\ runs[1].n > pushes[1].n
    /\ \E i \in 1..Len(runs[1].tasks) :
        /\ runs[1].tasks[i].id = pushes[1].id
        /\ RemainingAt(runs[1].tasks[i], runs[1].now) = 48 * TicksPerMinute

\* The slot an invocation finds due for task i of the list it read.
DueFor(r, i) ==
    LET task == runs[r].tasks[i]
        rem  == RemainingAt(runs[r].tasks[i], runs[r].now)
    IN  IF task.priority \in {1, 2, 3}
        THEN slotKeyOf(task.priority, rem, getJSTNow(runs[r].now)) \notin sentOf(task) \cup {NoSlot}
        ELSE \/ dueReminderSlot(task.priority, sentOf(task), rem) # NoSlot
             \/ due30m(sentOf(task), rem)

\* C9: a slot whose push failed is not recorded (every recorded label has a
\* push that succeeded), and a failing push does not end the invocation: it
\* answers 200 after it has attempted every task of its list that had a
\* slot due.
C9_FailureSkipsOneSlot ==
    /\ \A k \in 1..Len(tasks) : \A label \in sentOf(tasks[k]) :
        \E j \in Pushed : pushes[j].id = tasks[k].id /\ pushes[j].label = label
    /\ \A r \in Runs : Finished(r) =>
        /\ runs[r].status = 200
        /\ \A i \in 1..Len(runs[r].tasks) :
            DueFor(r, i) =>
                \E j \in 1..Len(pushes) : /\ pushes[j].n = runs[r].n
                                          /\ pushes[j].id = runs[r].tasks[i].id

\* C9 witness: an invocation answered 200 after the push for its first task
\* had failed and the push for its second task had succeeded; the first
\* task has no label recorded.
C9_Witness ==
    \E r \in Runs :
        /\ Finished(r) /\ runs[r].status = 200 /\ Len(runs[r].tasks) = 2
        /\ Len(pushes) = 2
        /\ ~pushes[1].ok /\ pushes[1].id = runs[r].tasks[1].id /\ pushes[1].n = runs[r].n
        /\ pushes[2].ok /\ pushes[2].id = runs[r].tasks[2].id /\ pushes[2].n = runs[r].n
        /\ \A k \in StoredWithId(pushes[1].id) : tasks[k].remindersSent = <<>>
        /\ \A k \in StoredWithId(pushes[2].id) : tasks[k].remindersSent = <<pushes[2].label>>

CancelKeywords == {CancelKyanseru, CancelYameru, CancelChuushi, CancelCancel}

\* C10: in every conversation state other than idle, a text that is a
\* cancel keyword makes the state idle without draft fields and leaves the
\* stored task list as it is; nothing of the text is taken as an answer.
C10_CancelAnywhere ==
    state.type # "idle" =>
        \A text \in CancelKeywords :
            /\ textEventHandler(state, tasks, text, now, idClock).state = IdleState
            /\ textEventHandler(state, tasks, text, now, idClock).tasks = tasks
            /\ textEventHandler(state, tasks, text, now, idClock).idClock = idClock
            /\ textEventHandler(state, tasks, text, now, idClock).reply.k
                    \in {"cancelled-add", "cancelled-delete", "cancelled-complete"}

\* C10 witness: the add flow was cancelled at its deadline step.
C10_Witness ==
    /\ nTurns = 4
    /\ state = IdleState
    /\ replies.k = "cancelled-add"
    /\ tasks = <<>>

\* What the store holds now.
StoreNow == Outcome(state, tasks, replies, idClock)

\* Names, priorities and deadlines a user answers the add flow with.
NameTexts == {<<Lit("milk")>>, <<Lit("tea")>>, <<Num(3)>>}
PriorityTexts == {<<Num(p)>> : p \in 1..4}
DeadlineTexts ==
    { <<Lit("myou"), Lit("nichi")>>,
      <<Num(3), Lit("gatsu"), Num(20), Lit("nichi"), Num(15), Lit("ji")>> }

\* list is base with one task more, which has the id, name, priority and
\* deadline given and no sent slot.
OneMore(list, base, id, name, priority, deadline) ==
    /\ Len(list) = Len(base) + 1
    /\ \E j \in 1..Len(list) :
        /\ list[j] = [id |-> id, name |-> name, priority |-> priority,
                      deadline |-> deadline, remindersSent |-> <<>>]
        /\ SubSeq(list, 1, j - 1) \o SubSeq(list, j + 1, Len(list)) = base

\* The store after an add command that started a flow from nothing.
Restarted ==
    Outcome([type |-> "task_add", step |-> "task_name", hasName |-> FALSE,
             taskName |-> <<>>, hasPriority |-> FALSE, priority |-> 0],
            tasks, Reply("ask-name", <<>>, <<>>), idClock)

CreatedFrom(s, name, p, deadlineStr) ==
    /\ s.state = IdleState
    /\ s.idClock = idClock + 1
    /\ OneMore(s.tasks, tasks, idClock + 1, name, p, deadlineStr)

\* C11: from every state in the middle of an add flow, whatever its draft,
\* a cancel followed by the add command leaves the store as an add command
\* leaves it that starts from nothing (step task_name, no draft, the same
\* tasks), and the name, priority and deadline turns that follow create one
\* task that has the name and the priority of those turns.
C11_CancelledDraftIsDropped ==
    state.type = "task_add" =>
        /\ \A c \in CancelKeywords :
            Conversation(redis, StoreNow, <<c, CmdTaskAdd>>, now) = Restarted
        /\ \A name \in NameTexts, p \in PriorityTexts, d \in DeadlineTexts :
            CreatedFrom(Conversation(redis, Restarted, <<name, p, d>>, now),
                        name, p[1].n, parseDeadlineInput(d, now))

\* C11 witness: seven turns, one cancel confirmed, and the last turn created
\* the only task there ever was, named by the second flow.
C11_Witness ==
    /\ nTurns = 7 /\ nCancelled = 1 /\ idClock = 1
    /\ replies.k = "task-added"
    /\ state = IdleState
    /\ Len(tasks) = 1 /\ tasks[1].name = <<Lit("tea")>> /\ tasks[1].priority = 2

\* A text that is one integer and nothing else.
IsIntegerText(text) == Len(text) = 1 /\ IsNum(text[1])

Unchanged(s) == s.state = state /\ s.tasks = tasks /\ s.idClock = idClock

\* C12 (as claimed): at step priority a text that is not a number, or is an
\* integer outside 1..4, leaves the state (step priority, the draft name)
\* and the task list as they are; an integer in 1..4 moves to step deadline.
C12_PriorityStepRejects ==
    (state.type = "task_add" /\ state.step = "priority") =>
        \A text \in Texts \ CancelKeywords :
            IF IsIntegerText(text) /\ text[1].n \in 1..4
            THEN Handled(redis, StoreNow, text, now).state.step = "deadline"
            ELSE Unchanged(Handled(redis, StoreNow, text, now))

\* C13: at step deadline a text that parseDeadlineInput rejects is answered
\* with the re-prompt and leaves the state (step deadline, the draft name
\* and priority) and the task list exactly as they were.
C13_RejectedDeadlineKeepsAll ==
    (state.type = "task_add" /\ state.step = "deadline") =>
        \A text \in Texts \ CancelKeywords :
            parseDeadlineInput(text, now) = Rejected =>
                /\ Unchanged(Handled(redis, StoreNow, text, now))
                /\ Handled(redis, StoreNow, text, now).reply.k = "bad-deadline"

\* C13 witness: the fourth turn answered the deadline question with a text
\* that was rejected, and the flow still waits at step deadline with its draft.
C13_Witness ==
    /\ nTurns = 4
    /\ replies.k = "bad-deadline"
    /\ state = AddState("deadline", TRUE, <<Lit("milk")>>, TRUE, 2)

\* The store in the middle of an add flow over the tasks stored now.
AtStep(st, k) == Outcome(st, tasks, Reply(k, <<>>, <<>>), idClock)

\* C14: from Idle the add command enters step task_name; the next text
\* becomes the draft name and enters step priority; an integer p in 1..4
\* becomes the draft priority and enters step deadline; an accepted
\* deadline then adds exactly one task (that name, priority p, the
\* normalised deadline, no sent slot) and leaves the state Idle: one turn
\* for each step.
C14_AddFlowCreatesOneTask ==
    state = IdleState =>
        /\ Handled(redis, StoreNow, CmdTaskAdd, now) = Restarted
        /\ \A name \in {<<Lit("milk")>>, PaddedTea} :
            /\ Handled(redis, Restarted, name, now)
                    = AtStep(AddState("priority", TRUE, trim(name), FALSE, 0), "ask-priority")
            /\ \A p \in 1..4 :
                /\ Handled(redis, AtStep(AddState("priority", TRUE, trim(name), FALSE, 0),
                                         "ask-priority"), <<Num(p)>>, now)
                        = AtStep(AddState("deadline", TRUE, trim(name), TRUE, p), "ask-deadline")
                /\ \A d \in DeadlineTexts :
                    CreatedFrom(Handled(redis, AtStep(AddState("deadline", TRUE, trim(name), TRUE, p),
                                                      "ask-deadline"), d, now),
                                trim(name), p, parseDeadlineInput(d, now))

\* C14 witness: four turns after a start without tasks the store holds one
\* task, named tea with priority 2 and tomorrow as its deadline, and the
\* state is Idle.
C14_Witness ==
    /\ nTurns = 4 /\ idClock = 1 /\ nCancelled = 0
    /\ replies.k = "task-added"
    /\ state = IdleState
    /\ tasks = <<[id |-> 1, name |-> <<Lit("tea")>>, priority |-> 2,
                  deadline |-> parseDeadlineInput(<<Lit("myou"), Lit("nichi")>>, now),
                  remindersSent |-> <<>>]>>

\* C15 (as claimed): in the stored list no task comes before a task of
\* lower priority, and tasks of equal priority are in the order in which
\* they were added (the order of their ids).
C15_SortedAndStable ==
    \A i, j \in 1..Len(tasks) :
        i < j => /\ ~JsGt(tasks[i].priority, tasks[j].priority)
                 /\ tasks[i].priority = tasks[j].priority => tasks[i].id < tasks[j].id

\* The store s is the store of now with the i-th task taken out: the state
\* is Idle, the other tasks are there in the order they had.
RemovedAt(s, i) ==
    /\ s.state = IdleState
    /\ s.idClock = idClock
    /\ s.reply.k = (IF state.type = "task_complete" THEN "completed" ELSE "deleted")
    /\ Len(s.tasks) = Len(tasks) - 1
    /\ \A j \in 1..Len(s.tasks) : s.tasks[j] = tasks[IF j < i THEN j ELSE j + 1]

\* C16: while the complete or the delete flow waits for an index, the text
\* of an integer i with 1 <= i <= length removes the i-th task of the stored
\* list and no other, keeps the order of the rest, and makes the state Idle.
C16_IndexRemovesThatTask ==
    state.type \in {"task_complete", "task_delete"} =>
        \A i \in 1..Len(tasks) : RemovedAt(Handled(redis, StoreNow, <<Num(i)>>, now), i)

\* C16 witness: of the two stored tasks the first was completed; the second
\* is what the list holds.
C16_Witness ==
    /\ nTurns = 2 /\ idClock = 2
    /\ replies.k = "completed"
    /\ state = IdleState
    /\ Len(tasks) = 1 /\ tasks[1].id = 2

\* The re-prompt of the index step: the question again, with the list given.
Reprompted(s, list) ==
    /\ s.reply.k = (IF state.type = "task_complete" THEN "bad-index-complete"
                    ELSE "bad-index-delete")
    /\ s.reply.list = list

\* C17 (as claimed): while the complete or the delete flow waits for an
\* index, a text that is not a number, or is an integer outside 1..length,
\* leaves the state and the task list as they are, and the re-prompt shows
\* the list that is stored when the text arrives.
C17_BadIndexKeepsAll ==
    state.type \in {"task_complete", "task_delete"} =>
        \A text \in Texts \ CancelKeywords :
            (~IsIntegerText(text) \/ text[1].n \notin 1..Len(tasks)) =>
                /\ Unchanged(Handled(redis, StoreNow, text, now))
                /\ Reprompted(Handled(redis, StoreNow, text, now), tasks)

\* The store after a complete or delete command that was accepted: the flow
\* of that command waits for an index, and the list was shown.
Asking(type, k) == Outcome(AskState(type), tasks, Reply(k, <<>>, tasks), idClock)

\* The store after a command that was refused because there is no task.
Refused == Outcome(state, tasks, Reply("no-tasks", <<>>, <<>>), idClock)

\* C18: in state Idle the complete command and the delete command enter
\* their flow when the stored list has a task; with an empty list they are
\* answered that there is no task and the state stays Idle.  So a flow that
\* waits for an index always has a task to point at.
C18_IndexFlowsNeedTasks ==
    /\ state.type = "idle" =>
        /\ Handled(redis, StoreNow, CmdTaskComplete, now)
                = (IF Len(tasks) = 0 THEN Refused
                   ELSE Asking("task_complete", "ask-index-complete"))
        /\ Handled(redis, StoreNow, CmdTaskDelete, now)
                = (IF Len(tasks) = 0 THEN Refused
                   ELSE Asking("task_delete", "ask-index-delete"))
    /\ state.type \in {"task_complete", "task_delete"} => Len(tasks) > 0

\* C18 witness: the delete command arrived when the only task had just been
\* completed, and found nothing to delete.
C18_Witness ==
    /\ nTurns = 3 /\ idClock = 1
    /\ state = IdleState
    /\ tasks = <<>>
    /\ replies.k = "no-tasks"

CommandKeywords == {CmdTaskAdd, CmdTaskList, CmdTaskComplete, CmdTaskDelete}

\* The store after a text that was only echoed.
Echoed(text) == Outcome(state, tasks, Reply("echo", text, <<>>), idClock)

\* C19 (as claimed): in state Idle a text that is none of the four command
\* keywords is answered with that same text, and the state and the task
\* list stay as they are.
C19_EchoVerbatim ==
    state.type = "idle" =>
        \A text \in Texts \ CommandKeywords :
            Handled(redis, StoreNow, text, now) = Echoed(text)

\* C19 (amended): in state Idle a text that, without the blanks around it,
\* is none of the four command keywords is answered with the text without
\* those blanks, and the state and the task list stay as they are.
C19_EchoTrimmed ==
    state.type = "idle" =>
        \A text \in Texts \cup {<<Lit("sp"), Lit("tasuku"), Lit("milk")>>} :
            trim(text) \notin CommandKeywords =>
                Handled(redis, StoreNow, text, now) = Echoed(trim(text))

\* C19 witness: the first text had blanks around it, and the reply is the
\* text without them; nothing else changed.
C19_Witness ==
    /\ nTurns = 1
    /\ replies = Reply("echo", <<Lit("tea")>>, <<>>)
    /\ state = IdleState
    /\ idClock = Len(tasks)

\* C20: an event whose sender is not the configured identity, or any event
\* when no identity is configured, gets no reply and leaves the stored
\* conversation state, the stored task list and the id clock as they are,
\* whatever the text and whatever flow is under way.
C20_OthersAreIgnored ==
    \A userId \in Senders, text \in GateTexts :
        (ALLOWED_LINE_USER_ID = "" \/ userId # ALLOWED_LINE_USER_ID) =>
            Delivered(userId, StoreNow, text, now) = Outcome(state, tasks, NoReply, idClock)

\* C20 witness: the owner started the add flow, then an event of somebody
\* else arrived: no reply, and the flow still waits for the name.
C20_Witness ==
    /\ ALLOWED_LINE_USER_ID = Me
    /\ nTurns = 2
    /\ replies = NoReply
    /\ state = AddState("task_name", FALSE, <<>>, FALSE, 0)

\* The reply names the sender: its text holds the sender's userId.
Reveals(reply, userId) ==
    /\ reply # NoReply
    /\ \E j \in 1..Len(reply.text) : reply.text[j] = Lit(userId)

\* C21 (as claimed): a text "my id", in any letter case, of any sender that
\* has a userId, allow-listed or not, and in any conversation state, is
\* answered with a reply that holds that sender's userId.
C21_MyIdAlwaysAnswered ==
    \A userId \in Senders \ {"null"}, text \in MyIdTexts :
        Reveals(Delivered(userId, StoreNow, text, now).reply, userId)

\* C22: when Redis, the identity or the channel token is not configured, a
\* request to GET /remind (one that passes the secret check) is answered
\* 200 at once, and no step pushes a notification or writes the task list.
C22_NoWorkIsSuccess ==
    [][~CanRemind =>
            /\ pushes' = pushes
            /\ tasks' = tasks
            /\ \A r \in Runs :
                    RemindStart(r) => runs'[r].pc = "done" /\ runs'[r].status = 200]_vars

\* C22 witness: without Redis, a request was answered 200 although the Maps
\* hold a task whose slot is due; nothing was pushed.
C22_Witness ==
    /\ ~redis /\ ALLOWED_LINE_USER_ID = Me /\ CHANNEL_ACCESS_TOKEN = "token"
    /\ runs[1].pc = "done" /\ runs[1].status = 200 /\ runs[1].n = 1
    /\ Len(tasks) = 1
    /\ dueReminderSlot(tasks[1].priority, sentOf(tasks[1]),
                        parseDeadlineToDate(tasks[1].deadline, now, tz) - now) # NoSlot
    /\ pushes = <<>>

\* Deadline texts of every form: months, days, hours and minutes in and out
\* of range, with and without a leading zero and blanks, and the relative
\* expressions.
MonthTokens == {NumW(0, 1), NumW(3, 1), NumW(3, 2), NumW(12, 2), NumW(13, 2)}
DayTokens == {NumW(0, 1), NumW(5, 2), NumW(31, 2), NumW(32, 2)}
HourParts ==
    { <<>>, <<Num(15), Lit("ji")>>, <<Lit("sp"), NumW(7, 2), Lit("ji")>>,
      <<Num(24), Lit("ji")>>, <<Lit("sp"), Lit("sp"), Num(0), Lit("ji")>> }
MinuteParts ==
    { <<>>, <<Num(30), Lit("fun")>>, <<Lit("sp"), NumW(5, 2), Lit("fun")>>,
      <<Num(60), Lit("fun")>> }
AbsoluteInputs ==
    { <<mo, Lit("gatsu"), d, Lit("nichi")>> \o h \o mi :
        mo \in MonthTokens, d \in DayTokens, h \in HourParts, mi \in MinuteParts }
RelativeHeads ==
    { <<Lit("kon"), Lit("nichi")>>, <<Lit("myou"), Lit("nichi")>>,
      <<Lit("myou"), Lit("go"), Lit("nichi")>>,
      <<Num(0), Lit("nichi"), Lit("go")>>, <<Num(30), Lit("nichi"), Lit("go")>>,
      <<NumW(100000000, 9), Lit("nichi"), Lit("go")>> }
RelativeTimes ==
    { <<>>, <<Lit("no"), Num(15), Lit("ji")>>, <<NumW(7, 2), Lit("ji"), NumW(5, 2), Lit("fun")>>,
      <<Num(24), Lit("ji")>>, <<Lit("no"), Num(0), Lit("ji"), Num(60), Lit("fun")>>,
      <<Num(30), Lit("fun")>> }
RelativeInputs == { h \o r : h \in RelativeHeads, r \in RelativeTimes }
ParseInputs == AbsoluteInputs \cup RelativeInputs \cup {<<Lit("sp")>> \o x : x \in RelativeInputs}

\* The string r is rejected, or parsing it at instant t gives r again.
RoundTrips(r, t) == r = Rejected \/ parseDeadlineInput(r, t) = r

\* C24 (as claimed): for every input that parseDeadlineInput accepts, the
\* string it returns is accepted again and parsed to that same string.
C24_RoundTrip ==
    \A input \in ParseInputs : RoundTrips(parseDeadlineInput(input, now), now)

\* C29 (as claimed): whatever texts the user has sent, every task of the
\* stored list has a priority that is one of the integers 1, 2, 3, 4.
C29_PriorityInRange ==
    \A j \in 1..Len(tasks) : tasks[j].priority \in 1..4

\* The pushes of label to task id that succeeded.
Delivered1h(id) ==
    {j \in Pushed : pushes[j].id = id /\ pushes[j].label = Slot1h}

\* C25 (as claimed): when an invocation that found a priority-4 task with
\* 48 < remainingMinutes <= 60 has pushed its `1h` notification with
\* success, that notification has been delivered exactly once, whatever
\* pushes failed before.
C25_RecoveredExactlyOnce ==
    \A j \in Pushed :
        (pushes[j].priority = 4 /\ pushes[j].label = Slot1h /\ InWindow(pushes[j].rem, 60)) =>
            Cardinality(Delivered1h(pushes[j].id)) = 1

\* A push of label to task id has succeeded.
WasPushed(id, label) ==
    \E j \in Pushed : pushes[j].id = id /\ pushes[j].label = label

\* C26: in every state, also one in which an invocation has died at an
\* await, every label in the sent record of a stored task is the label of
\* a push for that task that has succeeded; and a label that an invocation
\* is about to record (it is inside updateTask) has been pushed with success.
C26_RecordedAfterSend ==
    /\ \A k \in 1..Len(tasks) :
            \A h \in 1..Len(tasks[k].remindersSent) :
                WasPushed(tasks[k].id, tasks[k].remindersSent[h])
    /\ \A r \in Runs :
            runs[r].pc \in {"read", "write"} =>
                WasPushed(runs[r].tasks[runs[r].i].id, runs[r].slot)

\* C26 witness: an invocation died between the push for its second task
\* and the record: the first task has its label recorded, the second was
\* pushed and has none.
C26_Witness ==
    /\ runs[1].pc = "crashed" /\ runs[1].i = 2
    /\ Len(pushes) = 2 /\ pushes[1].ok /\ pushes[2].ok
    /\ Len(tasks) = 2
    /\ tasks[1].remindersSent = <<pushes[1].label>>
    /\ tasks[2].remindersSent = <<>>

(***************************************************************************)
(* The webhook batch.                                                      *)
(***************************************************************************)
Failed(e) == handlers[e].pc = "failed"
Completed(e) == handlers[e].pc = "done"

\* C23: a failure in the handling of one event of a batch does not keep the
\* other events from being handled to completion; the request is answered
\* when every handler has ended, with 500 when at least one handler failed
\* and with 200 otherwise.
C23_FailuresAreIsolated ==
    batch.status # 0 =>
        /\ \A e \in Events : Settled(handlers[e])
        /\ batch.status = 500 <=> \E e \in Events : Failed(e)
        /\ batch.status = 200 <=> \A e \in Events : ~Failed(e)

\* One event failed, the other was handled to its reply, and the answer is 500.
C23_Witness ==
    /\ batch.status = 500
    /\ Failed(1)
    /\ Completed(2)
    /\ handlers[2].out.reply.k = "ask-name"
    /\ replies = handlers[2].out.reply
    /\ state.type = "task_add"

\* The handler of event e has read the conversation state and has not ended.
BetweenReadAndEnd(e) == handlers[e].pc \notin {"idle", "getState", "done", "failed"}

\* Both handlers have created a task from the same draft.
BothCreated ==
    /\ Completed(1) /\ Completed(2)
    /\ handlers[1].out.reply.k = "task-added"
    /\ handlers[2].out.reply.k = "task-added"
    /\ handlers[1].st = handlers[2].st

\* C27: two chat events of the same user are never handled concurrently: in
\* a batch with two events of the owner, the handler of one event reads
\* the store only after the handler of the other has ended, so two accepted
\* deadline turns never both create a task from one draft.
C27_OneUserOneHandler ==
    /\ \A e1, e2 \in Events :
            e1 # e2 => ~(BetweenReadAndEnd(e1) /\ BetweenReadAndEnd(e2))
    /\ ~BothCreated

\* C30: the ids of the stored tasks are unique, also when two tasks are
\* created at the same clock reading.  (The claim adds that the id of a
\* removed task is never used again; the uniqueness of the stored ids is
\* the part of it that a state of the store shows.)
C30_IdsAreUnique ==
    \A i, j \in 1..Len(tasks) : i # j => tasks[i].id # tasks[j].id

IsPrefix(a, b) == Len(a) <= Len(b) /\ SubSeq(b, 1, Len(a)) = a

\* C28: the record of sent slots of a task is append-only for as long as
\* the task is stored, under every interleaving of the dispatch runs and the
\* chat events: a step never takes a label away from a task that it keeps.
C28_SentSlotsOnlyGrow ==
    [][\A i \in 1..Len(tasks), j \in 1..Len(tasks') :
            tasks[i].id = tasks'[j].id =>
                IsPrefix(tasks[i].remindersSent, tasks'[j].remindersSent)]_vars

(***************************************************************************)
(* parseDeadlineToDate.                                                    *)
(***************************************************************************)
\* Stored deadlines around the ends of the months and of the year.
ResolvedDeadlines ==
    Deadlines \cup
    { formatDeadline(1, 1, FALSE, 0, FALSE, 0),
      formatDeadline(2, 29, TRUE, 9, FALSE, 0),
      formatDeadline(3, 10, TRUE, 8, TRUE, 48),
      formatDeadline(12, 31, TRUE, 23, TRUE, 59) }

\* The month, day and time of day of match m in year `year`, on the
\* server's clock.
InYearOf(m, year) == DateLocal(tz, year, m.month - 1, m.day, m.hour, m.minute)

InYear(deadline, year) == InYearOf(MatchAbsolute(deadline), year)

ThisYear == getFullYear(now, tz)

\* Instant r is this year's date when that is not before now, and next
\* year's date otherwise.
ResolvedTo(r, thisYears, nextYears) ==
    /\ r >= now
    /\ thisYears >= now => r = thisYears
    /\ thisYears < now => r = nextYears

\* C31: parseDeadlineToDate never returns an instant earlier than the
\* instant at which it is called: it returns the stored month, day and time
\* in the current year when that is not before now, and in the next year
\* otherwise.
C31_NeverBeforeNow ==
    \A deadline \in ResolvedDeadlines :
        ResolvedTo(parseDeadlineToDate(deadline, now, tz),
                   InYear(deadline, ThisYear), InYear(deadline, ThisYear + 1))

\* An invocation has pushed for a task whose date of this year had passed:
\* the remaining time it computed reaches into the next year.
C31_Witness ==
    \E j \in Pushed :
        /\ pushes[j].ok
        /\ pushes[j].rem > 300 * MinutesPerDay
        /\ pushes[j].at = now
        /\ \E deadline \in ResolvedDeadlines : InYear(deadline, ThisYear) < now

(***************************************************************************)
(* The dispatch loop and the conversation on one store.                    *)
(***************************************************************************)
\* What a task is apart from its record of sent slots.
Core(task) ==
    [id |-> task.id, name |-> task.name, priority |-> task.priority, deadline |-> task.deadline]

Cores(list) == { Core(list[i]) : i \in 1..Len(list) }

\* C32: recording a sent slot is the only effect of the dispatch loop on
\* the store, under every interleaving with the addTask and
\* removeTaskByIndex of the conversation: the write of an updateTask
\* changes no name, priority or deadline, brings back no task that a
\* completed turn removed and drops no task that a completed add flow
\* stored.  Checked for the writes made while no handler is running, when
\* every turn so far is completed.
C32_DispatchOnlyRecords ==
    [][\A r \in Runs :
            (/\ runs[r].pc = "write" /\ runs'[r] # runs[r]
             /\ \A e \in Events : Settled(handlers[e]))
                => Cores(tasks') = Cores(tasks)]_vars

(***************************************************************************)
(* The stored conversation state.                                          *)
(***************************************************************************)
\* C33: the stored conversation state is exactly one of Idle, AddingTask,
\* CompletingTask and DeletingTask; Idle, CompletingTask and DeletingTask
\* carry no draft fields; AddingTask at step priority carries a draft name;
\* AddingTask at step deadline carries a draft name and a draft priority (a
\* priority is an integer from 1 to 4).
C33_StateIsOneVariant ==
    /\ state.type \in {"idle", "task_add", "task_complete", "task_delete"}
    /\ state.type # "task_add" => ~state.hasName /\ ~state.hasPriority
    /\ state.type = "task_add" => state.step \in {"task_name", "priority", "deadline"}
    /\ (state.type = "task_add" /\ state.step = "priority") => state.hasName
    /\ (state.type = "task_add" /\ state.step = "deadline") =>
            /\ state.hasName
            /\ state.hasPriority
            /\ state.priority \in 1..4

(***************************************************************************)
(* Relative deadlines, from the parser to the scheduler.                   *)
(***************************************************************************)
\* Relative expressions with their number of days, without and with a time.
DayHeads ==
    { <<0, <<Lit("kon"), Lit("nichi")>> >>, <<1, <<Lit("myou"), Lit("nichi")>> >>,
      <<2, <<Lit("myou"), Lit("go"), Lit("nichi")>> >>,
      <<3, <<Num(3), Lit("nichi"), Lit("go")>> >> }
DayTimes == { <<>>, <<Lit("no"), Num(23), Lit("ji")>>, <<Num(12), Lit("ji"), Num(30), Lit("fun")>> }

\* The number of the UTC+9 calendar day of instant t.
JSTDayOf(t) ==
    DaysFromCivil(FieldsAt(t, JSTOffsetMinutes).y, FieldsAt(t, JSTOffsetMinutes).m,
                  FieldsAt(t, JSTOffsetMinutes).d)

\* The instant the scheduler makes, at instant t, of the text entered at t.
ResolvedAtEntry(input, t) == parseDeadlineToDate(parseDeadlineInput(input, t), t, tz)

\* C34: a deadline entered as a relative expression of N days from now,
\* with or without a time of day, is resolved by the scheduler on the day
\* of entry to an instant on the N-th UTC+9 calendar day after the day of
\* entry, not about a year later.
C34_RelativeDayIsKept ==
    \A head \in DayHeads, time \in DayTimes :
        JSTDayOf(ResolvedAtEntry(head[2] \o time, now)) = JSTDayOf(now) + head[1]

=============================================================================
